---- MODULE Spec2Model ----
(***************************************************************************)
(* A model of the star-system generator of src/src/worldgen.ts:            *)
(* generateSystem builds a tree of stars (genStars), then populates the    *)
(* orbit slots of every star (fillSystem).  Dice are nondeterministic      *)
(* choices; JavaScript arrays are modelled with their length and holes.    *)
(*                                                                         *)
(* Specifications: SpecStars is genStars in its steps; SpecFill and        *)
(* SpecSlots are fillSystem, phase by phase, from trees genStars builds;   *)
(* SpecGiants is the gas giant phase on lone stars of more orbits;         *)
(* SpecMoons the satellites pass of one body; SpecBodies the UWP digits of *)
(* generated worlds, belts and satellites; SpecUpp World.to_upp followed   *)
(* by World.from_upp; SpecParse World.from_upp on strings of any kind;     *)
(* SpecStarPairs the types and sizes of a primary and its companion;       *)
(* SpecNesting the nested calls of genCompanionSystem; SpecZones getZone   *)
(* on every star; SpecTrade genTradeClasses on every row of digits;        *)
(* SpecStats genSubordinateStats followed by genSubordinateFacilities;     *)
(* SpecFarm genSatellite with the stats and facilities of the satellite;   *)
(* SpecOrbits the orbits and stars of a companion and of its own           *)
(* companion.                                                              *)
(***************************************************************************)
EXTENDS Integers, Sequences, FiniteSets, TLC

\* ---------------------------------------------------------------- constants
FAR_ORBIT == 20
PRIMARY_ORBIT == -1

\* enum StarType { O, B, A, F, G, K, M }
TypeO == 0
TypeB == 1
TypeA == 2
TypeF == 3
TypeG == 4
TypeK == 5
TypeM == 6

\* enum StarSize { Ia, Ib, II, III, IV, V, VI, D }
SizeIa == 0
SizeII == 2
SizeIII == 3
SizeIV == 4
SizeV == 5
SizeVI == 6
SizeD == 7

\* ---------------------------------------------------------------- dice
Roll2D == 2..12
Roll1D == 1..6
Roll10 == 0..9
Roll12 == 0..11

Max(a, b) == IF a >= b THEN a ELSE b
Min(a, b) == IF a <= b THEN a ELSE b

\* ---------------------------------------------------------------- zone table
\* zoneTables[size + 1][star_type + 1][1 for subtype 0, 2 for subtype 5] =
\* <<inside, hot, inner, habitable, outer>>
zoneTables ==
  <<
    << <<<<0,0,0,0,0>>, <<0,0,0,0,0>>>>,
       <<<<0,7,12,13,14>>, <<0,7,12,13,14>>>>,
       <<<<1,6,11,12,14>>, <<1,6,11,12,14>>>>,
       <<<<2,5,11,12,14>>, <<2,5,10,11,14>>>>,
       <<<<3,6,11,12,14>>, <<4,6,11,12,14>>>>,
       <<<<5,6,11,12,14>>, <<5,6,11,12,14>>>>,
       <<<<6,6,11,12,14>>, <<0,6,11,12,14>>>> >>,
    << <<<<0,0,0,0,0>>, <<0,0,0,0,0>>>>,
       <<<<0,7,12,13,14>>, <<0,5,10,11,14>>>>,
       <<<<0,4,10,11,14>>, <<0,4,9,10,14>>>>,
       <<<<0,4,9,10,14>>, <<0,3,9,10,14>>>>,
       <<<<0,3,9,10,14>>, <<1,4,9,10,14>>>>,
       <<<<3,4,9,10,14>>, <<4,5,10,11,14>>>>,
       <<<<5,5,10,11,14>>, <<6,6,11,12,14>>>> >>,
    << <<<<0,0,0,0,0>>, <<0,0,0,0,0>>>>,
       <<<<0,6,11,12,13>>, <<0,4,10,11,13>>>>,
       <<<<0,2,8,9,13>>, <<0,1,7,8,13>>>>,
       <<<<0,1,7,8,13>>, <<0,1,7,8,13>>>>,
       <<<<0,1,7,8,13>>, <<0,1,7,8,13>>>>,
       <<<<0,1,8,9,13>>, <<1,2,8,9,13>>>>,
       <<<<3,3,9,10,13>>, <<5,5,10,11,13>>>> >>,
    << <<<<0,0,0,0,0>>, <<0,0,0,0,0>>>>,
       <<<<0,6,11,12,13>>, <<0,4,9,10,13>>>>,
       <<<<0,0,7,8,13>>, <<0,0,6,7,13>>>>,
       <<<<0,0,5,6,13>>, <<0,0,5,6,13>>>>,
       <<<<0,0,5,6,13>>, <<0,0,6,7,13>>>>,
       <<<<0,0,6,7,13>>, <<0,0,7,8,13>>>>,
       <<<<0,1,7,8,13>>, <<3,3,8,9,13>>>> >>,
    << <<<<0,0,0,0,0>>, <<0,0,0,0,0>>>>,
       <<<<0,6,11,12,13>>, <<0,2,8,9,13>>>>,
       <<<<0,0,6,7,13>>, <<-1,-1,5,6,13>>>>,
       <<<<-1,-1,5,6,13>>, <<-1,-1,4,5,13>>>>,
       <<<<-1,-1,4,5,13>>, <<-1,-1,4,5,13>>>>,
       <<<<-1,-1,3,4,13>>, <<0,0,0,0,0>>>>,
       <<<<0,0,0,0,0>>, <<0,0,0,0,0>>>> >>,
    << <<<<0,0,0,0,0>>, <<0,0,0,0,0>>>>,
       <<<<0,5,11,12,14>>, <<0,2,8,9,14>>>>,
       <<<<-1,-1,6,7,14>>, <<-1,-1,5,6,14>>>>,
       <<<<-1,-1,4,5,14>>, <<-1,-1,3,4,14>>>>,
       <<<<-1,-1,2,3,14>>, <<-1,-1,2,3,14>>>>,
       <<<<-1,-1,-1,0,14>>, <<-1,-1,-1,0,14>>>>,
       <<<<-1,-1,-1,-1,14>>, <<-1,-1,-1,-1,14>>>> >>,
    << <<<<0,0,0,0,0>>, <<0,0,0,0,0>>>>,
       <<<<0,0,0,0,0>>, <<0,0,0,0,0>>>>,
       <<<<0,0,0,0,0>>, <<0,0,0,0,0>>>>,
       <<<<0,0,0,0,0>>, <<-1,-1,2,3,4>>>>,
       <<<<-1,-1,1,2,4>>, <<-1,-1,0,1,4>>>>,
       <<<<-1,-1,-1,1,4>>, <<-1,-1,-1,-1,4>>>>,
       <<<<-1,-1,-1,-1,4>>, <<-1,-1,-1,-1,4>>>> >>,
    << <<<<0,0,0,0,0>>, <<0,0,0,0,0>>>>,
       <<<<-1,-1,-1,0,4>>, <<-1,-1,-1,0,4>>>>,
       <<<<-1,-1,-1,-1,4>>, <<-1,-1,-1,-1,4>>>>,
       <<<<-1,-1,-1,-1,4>>, <<-1,-1,-1,-1,4>>>>,
       <<<<-1,-1,-1,-1,4>>, <<-1,-1,-1,-1,4>>>>,
       <<<<-1,-1,-1,-1,4>>, <<-1,-1,-1,-1,4>>>>,
       <<<<-1,-1,-1,-1,4>>, <<-1,-1,-1,-1,4>>>> >>
  >>

roundSubType(subtype) == IF subtype < 5 THEN 0 ELSE 5

\* the zone record with the hot and inner limits taken from each other's column
ZoneOfCrossed(star) ==
  LET z == zoneTables[star.size + 1][star.star_type + 1][IF roundSubType(star.subtype) = 0 THEN 1 ELSE 2]
  IN  [inside |-> z[1], hot |-> z[3], inner |-> z[2], habitable |-> z[4], outer |-> z[5]]

ZoneOf(star) ==
  LET z == zoneTables[star.size + 1][star.star_type + 1][IF roundSubType(star.subtype) = 0 THEN 1 ELSE 2]
  IN  [inside |-> z[1], hot |-> z[2], inner |-> z[3], habitable |-> z[4], outer |-> z[5]]

genNumStars(roll) == IF roll <= 7 THEN 1 ELSE IF roll < 12 THEN 2 ELSE 3

genPrimaryStarType(roll) ==
  IF roll <= 1 THEN TypeB
  ELSE IF roll = 2 THEN TypeA
  ELSE IF roll <= 7 THEN TypeM
  ELSE IF roll = 8 THEN TypeK
  ELSE IF roll = 9 THEN TypeG
  ELSE TypeF

genPrimaryStarSize(roll, star_type, subType) ==
  LET star_size == IF roll <= 4 THEN roll
                   ELSE IF roll <= 10 THEN SizeV
                   ELSE IF roll = 11 THEN SizeVI ELSE SizeD
      in_k5_to_m9 == ((star_type = TypeK /\ subType >= 5) \/ star_type > TypeK) /\ star_type <= TypeM
      in_b0_to_f4 == star_type < TypeF \/ (star_type = TypeF /\ subType <= 4)
  IN  IF star_size = SizeIV /\ in_k5_to_m9 THEN SizeV
      ELSE IF star_size = SizeVI /\ in_b0_to_f4 THEN SizeV
      ELSE star_size

genCompanionStarType(roll) ==
  IF roll <= 1 THEN TypeB
  ELSE IF roll = 2 THEN TypeA
  ELSE IF roll <= 4 THEN TypeF
  ELSE IF roll <= 6 THEN TypeG
  ELSE IF roll <= 8 THEN TypeK
  ELSE TypeM

genCompanionStarSize(roll) ==
  IF roll <= 4 THEN roll
  ELSE IF roll <= 6 THEN SizeD
  ELSE IF roll <= 8 THEN SizeV
  ELSE IF roll = 9 THEN SizeVI
  ELSE SizeD

\* genCompanionOrbit(roll); die is the 1D it rolls when 7 <= roll <= 11
\* the companion orbit table with FAR_ORBIT reached from a roll of 8
genCompanionOrbitNear(roll, die) ==
  IF roll <= 3 THEN -1
  ELSE IF roll <= 6 THEN roll - 3
  ELSE IF roll <= 7 THEN roll - 3 + die
  ELSE FAR_ORBIT

genCompanionOrbit(roll, die) ==
  IF roll <= 3 THEN -1
  ELSE IF roll <= 6 THEN roll - 3
  ELSE IF roll <= 11 THEN roll - 3 + die
  ELSE FAR_ORBIT

\* genMaxOrbits(star); roll is its 2D
genMaxOrbits(star, roll) ==
  LET mod == (IF star.size <= SizeII THEN 8 ELSE IF star.size = SizeIII THEN 4 ELSE 0)
             + (IF star.star_type = TypeM THEN -4 ELSE IF star.star_type = TypeK THEN -2 ELSE 0)
  IN  Max(roll + mod, 0)

\* ---------------------------------------------------------------- bounds
\* a star keeps at most MaxCapacity orbits: larger genMaxOrbits results are not explored
MaxCapacity == 2
\* numbered companion orbits above MaxCompOrbit are not explored (contact and FAR_ORBIT are)
MaxCompOrbit == 3
\* the 2D rolls for star type and star size are explored up to MaxStarRoll
MaxStarRoll == 3

\* ---------------------------------------------------------------- slots
\* One record shape for everything a slot or a satellite list can hold:
\* null, a hole of the JavaScript array (undefined), Empty, System (node names
\* the star), GasGiant (size 0 Small, 1 Large) and World.
NullSlot == [k |-> "null", orbit |-> -1, star_orbit |-> -1, size |-> 0, name |-> "", main |-> FALSE,
             node |-> "none", sats |-> <<>>]
HoleSlot == [NullSlot EXCEPT !.k = "hole"]
EmptySlot(i) == [NullSlot EXCEPT !.k = "Empty", !.orbit = i]
SystemSlot(id, orbit) == [NullSlot EXCEPT !.k = "System", !.node = id, !.orbit = orbit]

\* new Array(n).fill(null)
NewArray(n) == [i \in 1..n |-> NullSlot]

\* arr[i] = v for i >= 0: beyond the length the array grows, leaving holes
ArraySet(arr, i, v) ==
  IF i < Len(arr) THEN [arr EXCEPT ![i + 1] = v]
  ELSE [j \in 1..(i + 1) |-> IF j <= Len(arr) THEN arr[j] ELSE IF j = i + 1 THEN v ELSE HoleSlot]

\* arr[i]: outside the array (and in a hole) the read gives undefined
ArrayGet(arr, i) == IF i >= 0 /\ i < Len(arr) THEN arr[i + 1] ELSE HoleSlot

\* every index of arr, whatever it holds
NullIndicesAny(arr) == 0..(Len(arr) - 1)

\* the indices i of arr with arr[i] === null
NullIndices(arr) == {i \in 0..(Len(arr) - 1) : arr[i + 1].k = "null"}

\* ---------------------------------------------------------------- star tree
\* P is the primary, S and T its secondary and tertiary, SS and TS the
\* secondary of a far S and of a far T.
NodeIds == {"P", "S", "T", "SS", "TS"}
SubId(id) == IF id = "S" THEN "SS" ELSE "TS"

NoNode == [exists |-> FALSE, star |-> [star_type |-> 0, subtype |-> 0, size |-> 0], orbit |-> -1,
           max_orbits |-> 0, orbits |-> <<>>, secondary |-> "none", tertiary |-> "none"]

\* new System(star_type, subtype, size, orbit, 0); the subtype is kept rounded,
\* which is all that getZone and genPrimaryStarSize read of it
NewSystem(star_type, subtype, size, orbit) ==
  [NoNode EXCEPT !.exists = TRUE,
                 !.star = [star_type |-> star_type, subtype |-> roundSubType(subtype), size |-> size],
                 !.orbit = orbit]

setMaxOrbits(node, max_orbits) == [node EXCEPT !.max_orbits = max_orbits, !.orbits = NewArray(max_orbits)]

emptyOrbitsNearCompanion(orbits, orbit) ==
  LET RECURSIVE mark(_, _)
      mark(arr, i) == IF i < orbit THEN mark(ArraySet(arr, i, EmptySlot(i)), i + 1) ELSE arr
      a1 == mark(orbits, (orbit \div 2) + 1)
      a2 == ArraySet(a1, orbit + 1, EmptySlot(orbit + 1))
  IN  ArraySet(a2, orbit + 2, EmptySlot(orbit + 2))

\* the primary of genStars, before its capacity is rolled
PrimaryStar(world_mod, type_roll, size_roll, subtype) ==
  NewSystem(genPrimaryStarType(type_roll + world_mod), subtype,
            genPrimaryStarSize(size_roll, genPrimaryStarType(type_roll + world_mod), subtype),
            PRIMARY_ORBIT)

\* the companion of genCompanionSystem, before its capacity is rolled
CompanionStar(companion_type_roll, companion_size_roll, subtype, orbit) ==
  NewSystem(genCompanionStarType(companion_type_roll), subtype,
            genCompanionStarSize(companion_size_roll), orbit)

\* the rolled orbit kept as it is, inside the primary or not
CompanionOrbitKept(system, orbit) == orbit

\* the orbit genStars gives a companion: inside the primary it becomes 0
CompanionOrbit(system, orbit) == IF orbit <= ZoneOf(system.star).inside THEN 0 ELSE orbit

\* genStars placing a companion: system.orbits[orbit] = companion, then the Empty marks
LinkCompanion(system, id, orbit) ==
  [system EXCEPT
     !.secondary = IF id = "S" THEN id ELSE @,
     !.tertiary = IF id = "T" THEN id ELSE @,
     !.orbits = emptyOrbitsNearCompanion(
                  IF orbit >= 0 THEN ArraySet(@, orbit, SystemSlot(id, orbit)) ELSE @, orbit)]

\* genCompanionSystem giving a far companion its own secondary
LinkSubCompanion(companion, sid, orbit) ==
  [companion EXCEPT !.secondary = sid, !.orbits = ArraySet(@, orbit, SystemSlot(sid, orbit))]

\* what the bounds let the dice of genStars be
StarDice == {r \in Roll2D : r <= MaxStarRoll}
Explored(orbit) == orbit <= MaxCompOrbit \/ orbit = FAR_ORBIT

\* ---------------------------------------------------------------- state
VARIABLES
  pc,          \* where generateSystem stands
  sys,         \* the star tree: node id -> System
  main_world,  \* the main world handed to generateSystem
  loc,         \* the local variables of the running function
  err,         \* the exception that ended the run, or "none"
  giants,      \* what the genGasGiants call that just returned rolled and did
  cleaned,     \* the satellite list the clean_satellites call that just returned was given
  uwp,         \* the body whose UWP digits are being generated
  codec        \* the world, string and result of a to_upp / from_upp round trip

vars == <<pc, sys, main_world, loc, err, giants, cleaned, uwp, codec>>

NoGiants == [called |-> FALSE, presence |-> 0, rolled |-> 0, open |-> 0, placed |-> 0,
             reported |-> FALSE, returned |-> 0]
NoCleaned == [called |-> FALSE, satellites |-> <<>>]
NoBody == [kind |-> "none"]
NoCodec == [state |-> "none"]

\* nothing is observed, and the single-function checks are not running
Unobserved == giants = NoGiants /\ cleaned = NoCleaned /\ uwp = NoBody /\ codec = NoCodec
Quiet == giants' = NoGiants /\ cleaned' = NoCleaned /\ UNCHANGED <<uwp, codec>>

NoLoc == [num_stars |-> 0, type_roll |-> 0, size_roll |-> 0, id |-> "none", orbit |-> 0,
          ctype_roll |-> 0, csize_roll |-> 0, num_gas_giants |-> 0, i |-> 0, j |-> 0]

\* the locals when generateSystem calls fillSystem(system, main_world, true)
FillStart == [NoLoc EXCEPT !.id = "P"]

\* World.from_upp(name, upp, false, true): orbit and star_orbit start at 0; the
\* digits not given here are those of A788899-A
MainWorld(size, atmosphere, population) ==
  [size |-> size, atmosphere |-> atmosphere, population |-> population, orbit |-> 0, star_orbit |-> 0,
   hydro |-> 8, government |-> 9, law_level |-> 9, tech_level |-> 10]

\* A788899-A of src/src/App.tsx, and a vacuum rock that needs no habitable zone
MainWorlds == {MainWorld(7, 8, 8), MainWorld(3, 0, 5)}

star_mod(w) == IF (w.atmosphere >= 4 /\ w.atmosphere <= 9) \/ w.population >= 8 THEN 4 ELSE 0

InitStars ==
  /\ pc = "genStars"
  /\ sys = [id \in NodeIds |-> NoNode]
  /\ main_world \in MainWorlds
  /\ loc = NoLoc
  /\ err = "none"
  /\ Unobserved

\* the subtypes roll10 can give, as the star keeps them
SubTypes == {roundSubType(sub) : sub \in Roll10}

\* genStars, lines 571-591: the primary and its capacity
GenPrimary ==
  /\ pc = "genStars"
  /\ \E num_stars \in {genNumStars(n) : n \in Roll2D}, tr \in StarDice, sr \in StarDice, sub \in SubTypes :
       LET system == PrimaryStar(star_mod(main_world), tr, sr, sub)
       IN  \E max_orbits \in {genMaxOrbits(system.star, r) : r \in Roll2D} :
             /\ max_orbits <= MaxCapacity
             /\ sys' = [sys EXCEPT !["P"] = setMaxOrbits(system, max_orbits)]
             /\ IF num_stars > 1
                THEN /\ loc' = [NoLoc EXCEPT !.num_stars = num_stars, !.type_roll = tr,
                                             !.size_roll = sr, !.id = "S"]
                     /\ pc' = "companion"
                ELSE /\ loc' = FillStart
                     /\ pc' = "genEmptyOrbits"
  /\ UNCHANGED <<main_world, err>>
  /\ Quiet

\* genStars, lines 594-597 and 611-614, and genCompanionSystem, lines 479-489:
\* the orbit of the secondary or tertiary, then the companion and its capacity
GenCompanion ==
  /\ pc = "companion"
  /\ \E orbit \in { CompanionOrbit(sys["P"], genCompanionOrbit(IF loc.id = "T" THEN ro + 4 ELSE ro, d))
                    : ro \in Roll2D, d \in Roll1D },
        r1 \in StarDice, r2 \in StarDice, sub \in SubTypes :
       LET companion == CompanionStar(r1 + loc.type_roll, r2 + loc.size_roll, sub, orbit)
       IN  \E max_orbits \in {Min(orbit \div 2, genMaxOrbits(companion.star, r)) : r \in Roll2D} :
             /\ Explored(orbit)
             /\ max_orbits <= MaxCapacity
             /\ sys' = [sys EXCEPT ![loc.id] = setMaxOrbits(companion, max_orbits)]
             /\ IF orbit = FAR_ORBIT
                THEN /\ loc' = [loc EXCEPT !.orbit = orbit, !.ctype_roll = r1 + loc.type_roll,
                                           !.csize_roll = r2 + loc.size_roll]
                     /\ pc' = "far"
                ELSE /\ loc' = [loc EXCEPT !.orbit = orbit]
                     /\ pc' = "link"
  /\ UNCHANGED <<main_world, err>>
  /\ Quiet

\* genCompanionSystem, lines 492-518: a far companion may have a secondary of
\* its own, built by a nested genCompanionSystem
GenSubCompanion ==
  /\ pc = "far"
  /\ \E num_stars \in {genNumStars(n) : n \in Roll2D} :
       IF num_stars <= 1
       THEN /\ pc' = "link"
            /\ loc' = [loc EXCEPT !.ctype_roll = 0, !.csize_roll = 0]
            /\ UNCHANGED <<sys, err>>
       ELSE \E orbit \in { genCompanionOrbit(ro - 4, d) : ro \in Roll2D, d \in Roll1D } :
              IF orbit \div 2 < 0
              THEN \* line 489 of the nested call: new Array(-1) throws RangeError
                   /\ err' = "RangeError"
                   /\ pc' = "failed"
                   /\ UNCHANGED <<sys, loc>>
              ELSE \E r1 \in StarDice, r2 \in StarDice, sub \in SubTypes :
                     LET inner == CompanionStar(r1 + loc.ctype_roll, r2 + loc.csize_roll, sub, orbit)
                     IN  \E max_orbits \in {Min(orbit \div 2, genMaxOrbits(inner.star, r)) : r \in Roll2D} :
                           /\ Explored(orbit)
                           /\ max_orbits <= MaxCapacity
                           /\ sys' = [sys EXCEPT ![SubId(loc.id)] = setMaxOrbits(inner, max_orbits),
                                                 ![loc.id] = LinkSubCompanion(@, SubId(loc.id), orbit)]
                           /\ loc' = [loc EXCEPT !.ctype_roll = 0, !.csize_roll = 0]
                           /\ pc' = "link"
                           /\ UNCHANGED err
  /\ UNCHANGED main_world
  /\ Quiet

\* genStars, lines 604-607 and 622-625: the companion enters the primary's slots
PlaceCompanion ==
  /\ pc = "link"
  /\ sys' = [sys EXCEPT !["P"] = LinkCompanion(@, loc.id, loc.orbit)]
  /\ IF loc.id = "S" /\ loc.num_stars = 3
     THEN /\ loc' = [loc EXCEPT !.id = "T", !.orbit = 0]
          /\ pc' = "companion"
     ELSE /\ loc' = FillStart
          /\ pc' = "genEmptyOrbits"
  /\ UNCHANGED <<main_world, err>>
  /\ Quiet

NextStars == GenPrimary \/ GenCompanion \/ GenSubCompanion \/ PlaceCompanion
SpecStars == InitStars /\ [][NextStars]_vars


\* ---------------------------------------------------------------- bodies
\* enum GasGiantSize { Small, Large }
GGSmall == 0
GGLarge == 1

\* a giant that keeps the orbit 0 of its class default instead of its position
GasGiantSlotUnplaced(size, orbit) == [NullSlot EXCEPT !.k = "GasGiant", !.size = size, !.orbit = 0]

\* new GasGiant(name, size, orbit)
GasGiantSlot(size, orbit) == [NullSlot EXCEPT !.k = "GasGiant", !.size = size, !.orbit = orbit]

\* new World(name, orbit, star_orbit, size, ...): the slot keeps what the later
\* phases read of a world; its UWP digits are the subject of GenWorldDigits
WorldSlot(name, orbit, star_orbit, size) ==
  [NullSlot EXCEPT !.k = "World", !.name = name, !.orbit = orbit, !.star_orbit = star_orbit, !.size = size]

\* the main world as a slot or satellite entry
MainWorldSlot(w) == [WorldSlot("Main World", w.orbit, w.star_orbit, w.size) EXCEPT !.main = TRUE]

\* ---------------------------------------------------------------- fillSystem, phase by phase
\* the sets of indices a loop can take that draws n times at random, first
\* from the list first while it lasts, then from the list second
PickPreferred(first, second, n) ==
  IF n <= Cardinality(first)
  THEN {c \in SUBSET first : Cardinality(c) = n}
  ELSE {first \cup c : c \in {d \in SUBSET second : Cardinality(d) = Min(n - Cardinality(first),
                                                                          Cardinality(second))}}

\* arr with arr[i] = body(i) for every i of the set indices (all inside the array)
SetAll(arr, indices, body(_)) == [j \in 1..Len(arr) |-> IF (j - 1) \in indices THEN body(j - 1) ELSE arr[j]]

\* genEmptyOrbits: first is the 1D that decides whether there are empty orbits,
\* second the 1D that says how many
NumEmpty(first, second) ==
  IF first < 5 THEN 0 ELSE IF second <= 2 THEN 1 ELSE IF second = 3 THEN 2 ELSE 3

\* the slot arrays genEmptyOrbits can leave
genEmptyOrbits(orbits, first, second) ==
  { SetAll(orbits, c, EmptySlot) : c \in PickPreferred(NullIndices(orbits), {}, NumEmpty(first, second)) }

countOpenOrbits(system) ==
  Cardinality({i \in 1..system.max_orbits : ArrayGet(system.orbits, i).k = "null"})

\* the count table of genGasGiants
GasGiantTable(roll) ==
  IF roll <= 3 THEN 1 ELSE IF roll <= 5 THEN 2 ELSE IF roll <= 7 THEN 3 ELSE IF roll <= 10 THEN 4 ELSE 5

\* the number of giants with the presence test the other way round
NumGiantsInverted(system, presence, roll) ==
  IF presence < 10 THEN 0 ELSE Min(GasGiantTable(roll), countOpenOrbits(system))

\* genGasGiants, lines 644-665: the number of giants to place
NumGiants(system, presence, roll) ==
  IF presence >= 10 THEN 0 ELSE Min(GasGiantTable(roll), countOpenOrbits(system))

\* the giants drawn with the inner orbits first
GiantOrbitsInnerFirst(system, num_giants) ==
  LET habitable == ZoneOf(system.star).habitable
  IN  PickPreferred({i \in NullIndices(system.orbits) : i < habitable},
                    {i \in NullIndices(system.orbits) : i >= habitable}, num_giants)

\* genGasGiants, lines 667-719: where the giants can go, outer orbits first
GiantOrbits(system, num_giants) ==
  LET habitable == ZoneOf(system.star).habitable
  IN  PickPreferred({i \in NullIndices(system.orbits) : i >= habitable},
                    {i \in NullIndices(system.orbits) : i < habitable}, num_giants)

\* genGasGiants, lines 665-732, for original_num_giants = original: the slots it
\* leaves, the giants placed, whether console.error is reached (reported) and
\* the return value.  chosen are the orbits drawn, sizes their sizes
genGasGiants(system, original, chosen, sizes) ==
  LET left == original - Cardinality(chosen)
  IN  [orbits |-> SetAll(system.orbits, chosen, LAMBDA i : GasGiantSlot(sizes[i], i)),
       placed |-> Cardinality(chosen),
       reported |-> left > 0,
       returned |-> original - left]

\* the sizes genGasGiants can give the giants at the orbits chosen
GiantSizes(chosen) == [chosen -> {IF die <= 3 THEN GGSmall ELSE GGLarge : die \in Roll1D}]

\* genPlanetoids, lines 736-748
NumPlanetoids(presence, roll, num_giants) ==
  IF presence >= 7 THEN 0
  ELSE IF roll - num_giants <= 0 THEN 3 ELSE IF roll - num_giants <= 6 THEN 2 ELSE 1

\* genPlanetoids, lines 751-785: the orbit just inside a gas giant is preferred
PlanetoidOrbits(orbits, num_planetoids) ==
  LET viable_giants == {i \in NullIndices(orbits) : ArrayGet(orbits, i + 1).k = "GasGiant"}
  IN  PickPreferred(viable_giants, NullIndices(orbits) \ viable_giants, num_planetoids)

genPlanetoids(orbits, chosen) ==
  SetAll(orbits, chosen, LAMBDA i : WorldSlot("Planetoid Belt", i, i, 0))

\* ---------------------------------------------------------------- satellites
IsWorld(body) == body.k = "World"
IsGasGiant(body) == body.k = "GasGiant"

\* the die numSatellites and genSatellite roll for this primary
SatelliteDice(primary) == IF IsWorld(primary) THEN Roll1D ELSE Roll2D

numSatellites(primary, roll) ==
  IF IsWorld(primary) /\ primary.size <= 0 THEN 0
  ELSE IF IsWorld(primary) THEN Max(0, roll - 3)
  ELSE IF primary.size = GGSmall THEN Max(0, roll - 4)
  ELSE roll

\* genSatellite, lines 1072-1088
SatelliteSize(primary, roll) ==
  LET size == IF IsWorld(primary) THEN primary.size - roll
              ELSE IF primary.size = GGSmall THEN roll - 6 ELSE roll - 4
  IN  IF size < 0 THEN -1 ELSE size

\* the orbit as rolled, without the search for one that is free
genSatelliteOrbitAsRolled(primary, is_ring, die, roll, r12) ==
  LET orbit_type_roll == roll - Len(primary.sats)
  IN  IF is_ring THEN (IF die <= 3 THEN 1 ELSE IF die <= 5 THEN 2 ELSE 3)
      ELSE IF orbit_type_roll <= 7 THEN r12 + 3
      ELSE IF orbit_type_roll = 12 /\ IsGasGiant(primary) THEN (r12 + 3) * 25
      ELSE (r12 + 3) * 5

\* genSatelliteOrbit: die is the 1D of a ring, roll the 2D of the orbit type,
\* r12 the roll12 of a close, far or extreme orbit
genSatelliteOrbit(primary, is_ring, die, roll, r12) ==
  LET orbit_type_roll == roll - Len(primary.sats)
      start == IF is_ring THEN (IF die <= 3 THEN 1 ELSE IF die <= 5 THEN 2 ELSE 3)
               ELSE IF orbit_type_roll <= 7 THEN r12 + 3
               ELSE IF orbit_type_roll = 12 /\ IsGasGiant(primary) THEN (r12 + 3) * 25
               ELSE (r12 + 3) * 5
      RECURSIVE probe(_)
      probe(orbit) == IF \E j \in 1..Len(primary.sats) : primary.sats[j].orbit = orbit
                      THEN probe(orbit + 1) ELSE orbit
  IN  probe(start)

\* genSatellite: the primary with the new satellite pushed
genSatellite(primary, size_roll, die, roll, r12) ==
  LET size == SatelliteSize(primary, size_roll)
      orbit == genSatelliteOrbit(primary, size = 0, die, roll, r12)
  IN  [primary EXCEPT !.sats = Append(@,
         IF size = 0 THEN WorldSlot("Ring System", orbit, primary.orbit, 0)
         ELSE WorldSlot("Moon", orbit, primary.orbit, size))]

\* Array.prototype.splice(index, 1)
Splice(seq, index) ==
  IF index < Len(seq) THEN SubSeq(seq, 1, index) \o SubSeq(seq, index + 2, Len(seq)) ELSE seq

\* the indices (from 0) of the zero-size entries, ascending
RingIndices(sats) ==
  LET RECURSIVE collect(_)
      collect(j) == IF j > Len(sats) THEN <<>>
                    ELSE IF sats[j].size = 0 THEN <<j - 1>> \o collect(j + 1) ELSE collect(j + 1)
  IN  collect(1)

clean_satellites(sats) ==
  LET sorted == SortSeq(sats, LAMBDA a, b : a.orbit < b.orbit)
      ring_indices == RingIndices(sorted)
      RECURSIVE remove(_, _)
      remove(list, i) == IF i > Len(ring_indices) THEN list
                         ELSE remove(Splice(list, ring_indices[i]), i + 1)
      kept == remove(sorted, 2)
  IN  IF Len(ring_indices) > 0
      THEN [kept EXCEPT ![ring_indices[1] + 1].name = "Ring System"]
      ELSE kept

\* ---------------------------------------------------------------- placeMainWorld
requires_habitable(world) == world.atmosphere > 1 /\ world.atmosphere < 10 /\ world.size > 0

\* the index placeMainWorld uses for a world that requires the habitable zone
HabitableIndex(system) ==
  LET zone == ZoneOf(system.star)
  IN  IF zone.habitable = -1 \/ zone.habitable = zone.inner THEN Max(zone.inner, 0) ELSE zone.habitable

\* the positions Math.random can pick for a world that does not require it
MainWorldPositions(system) ==
  LET empty_orbits == {i \in NullIndices(system.orbits) : i > 0}
  IN  IF empty_orbits # {} THEN empty_orbits ELSE 0..Max(system.max_orbits - 1, 0)

\* placeMainWorld(system, world) on the node id of tree: the tree and the world
\* it leaves.  pos is the random position of the else branch; die, roll and r12
\* are the dice of genSatelliteOrbit when the world becomes a gas giant's satellite
RECURSIVE placeMainWorld(_, _, _, _, _, _, _)
placeMainWorld(tree, id, world, pos, die, roll, r12) ==
  LET system == tree[id]
      habitable == HabitableIndex(system)
      body == ArrayGet(system.orbits, habitable)
  IN  IF requires_habitable(world)
      THEN IF body.k = "System"
           THEN placeMainWorld(tree, body.node, [world EXCEPT !.star_orbit = habitable],
                               pos, die, roll, r12)
           ELSE IF body.k = "GasGiant"
           THEN LET w == [world EXCEPT !.orbit = genSatelliteOrbit(body, world.size = 0, die, roll, r12),
                                       !.star_orbit = habitable]
                IN  [sys |-> [tree EXCEPT ![id].orbits[habitable + 1].sats = Append(@, MainWorldSlot(w))],
                     world |-> w]
           ELSE LET w == [world EXCEPT !.star_orbit = habitable, !.orbit = habitable]
                IN  [sys |-> [tree EXCEPT ![id].orbits = ArraySet(@, habitable, MainWorldSlot(w))],
                     world |-> w]
      ELSE LET w == [world EXCEPT !.orbit = pos]
           IN  [sys |-> [tree EXCEPT ![id].orbits = ArraySet(@, pos, MainWorldSlot(w))], world |-> w]

\* ---------------------------------------------------------------- filler worlds
\* genWorld, lines 894-909: the size of a filler world
genWorldSize(system, orbit, roll) ==
  LET mod == (IF orbit = 0 THEN -5 ELSE IF orbit = 1 THEN -4 ELSE IF orbit = 2 THEN -2 ELSE 0)
             + (IF system.star.star_type = TypeM THEN -2 ELSE 0)
  IN  Max(roll - 2 + mod, 0)

\* the loop that stops one orbit short of the hot limit
ForceHotEmptyShort(system) ==
  LET RECURSIVE force(_, _)
      force(arr, i) == IF i < ZoneOf(system.star).hot
                       THEN force(ArraySet(arr, i, EmptySlot(i)), i + 1) ELSE arr
  IN  force(system.orbits, 0)

\* fillSystem, lines 1401-1403: the orbits up to the hot limit become Empty
ForceHotEmpty(system) ==
  LET RECURSIVE force(_, _)
      force(arr, i) == IF i <= ZoneOf(system.star).hot
                       THEN force(ArraySet(arr, i, EmptySlot(i)), i + 1) ELSE arr
  IN  force(system.orbits, 0)

\* fillSystem, lines 1404-1411: the indices that receive a generated world
WorldOrbits(system, orbits) ==
  {i \in (ZoneOf(system.star).hot + 1)..system.max_orbits : ArrayGet(orbits, i).k = "null"}

\* ---------------------------------------------------------------- fillSystem
\* more bounds: the 2D of a filler world's size is explored up to MaxWorldRoll,
\* a body gets at most MaxSatellites satellites in its pass, and the roll12 of
\* a satellite orbit is explored up to MaxOrbitRoll
MaxWorldRoll == 7
MaxSatellites == 1
MaxOrbitRoll == 0

WorldDice == {r \in Roll2D : r <= MaxWorldRoll}
OrbitDice == {r \in Roll12 : r <= MaxOrbitRoll}

\* fillSystem, line 1394
GenEmptyOrbits ==
  /\ pc = "genEmptyOrbits"
  /\ \E orbits \in UNION {genEmptyOrbits(sys[loc.id].orbits, first, second) : first \in Roll1D, second \in Roll1D} :
       sys' = [sys EXCEPT ![loc.id].orbits = orbits]
  /\ pc' = "genGasGiants"
  /\ UNCHANGED <<main_world, loc, err>>
  /\ Quiet

\* fillSystem, line 1395
GenGasGiants ==
  /\ pc = "genGasGiants"
  /\ \E presence \in Roll2D, roll \in Roll2D :
     \E chosen \in GiantOrbits(sys[loc.id], NumGiants(sys[loc.id], presence, roll)) :
     \E sizes \in GiantSizes(chosen) :
       LET result == genGasGiants(sys[loc.id], NumGiants(sys[loc.id], presence, roll), chosen, sizes)
       IN  /\ sys' = [sys EXCEPT ![loc.id].orbits = result.orbits]
           /\ loc' = [loc EXCEPT !.num_gas_giants = result.returned]
           /\ giants' = [called |-> TRUE, presence |-> presence,
                         rolled |-> IF presence >= 10 THEN 0 ELSE GasGiantTable(roll),
                         open |-> countOpenOrbits(sys[loc.id]), placed |-> result.placed,
                         reported |-> result.reported, returned |-> result.returned]
  /\ pc' = "genPlanetoids"
  /\ cleaned' = NoCleaned
  /\ UNCHANGED <<main_world, err, uwp, codec>>

\* fillSystem, lines 1396-1399: only the primary's pass places the main world
GenPlanetoids ==
  /\ pc = "genPlanetoids"
  /\ \E num_planetoids \in {NumPlanetoids(presence, roll, loc.num_gas_giants)
                             : presence \in Roll2D, roll \in Roll2D} :
     \E chosen \in PlanetoidOrbits(sys[loc.id].orbits, num_planetoids) :
       sys' = [sys EXCEPT ![loc.id].orbits = genPlanetoids(@, chosen)]
  /\ loc' = [loc EXCEPT !.num_gas_giants = 0]
  /\ pc' = IF loc.id = "P" THEN "placeMainWorld" ELSE "worlds"
  /\ UNCHANGED <<main_world, err>>
  /\ Quiet

\* fillSystem, line 1398
PlaceMainWorld ==
  /\ pc = "placeMainWorld"
  /\ \E pos \in MainWorldPositions(sys[loc.id]), die \in Roll1D, roll \in Roll2D, r12 \in OrbitDice :
       LET placed == placeMainWorld(sys, loc.id, main_world, pos, die, roll, r12)
       IN  /\ sys' = placed.sys
           /\ main_world' = placed.world
  /\ pc' = "worlds"
  /\ UNCHANGED <<loc, err>>
  /\ Quiet

\* fillSystem, lines 1401-1411: hot orbits become Empty, open orbits get a world
GenWorlds ==
  /\ pc = "worlds"
  /\ LET system == sys[loc.id]
         forced == ForceHotEmpty(system)
     IN  \E sizes \in [WorldOrbits(system, forced) -> 0..10] :
           /\ \A i \in DOMAIN sizes : sizes[i] \in {genWorldSize(system, i, roll) : roll \in WorldDice}
           /\ sys' = [sys EXCEPT ![loc.id].orbits =
                        SetAll(forced, DOMAIN sizes, LAMBDA i : WorldSlot("Planet", i, i, sizes[i]))]
  /\ loc' = [loc EXCEPT !.i = 1]
  /\ pc' = "satellites"
  /\ UNCHANGED <<main_world, err>>
  /\ Quiet

\* the body the satellites loop of fillSystem looks at
Body == ArrayGet(sys[loc.id].orbits, loc.i)

\* fillSystem, lines 1413-1416: the next body and the number of its satellites,
\* explored up to most satellites
NumSatellitesUpTo(most) ==
  /\ pc = "satellites"
  /\ loc.i <= sys[loc.id].max_orbits
  /\ IF IsWorld(Body) \/ IsGasGiant(Body)
     THEN \E num_satellites \in {numSatellites(Body, roll) : roll \in SatelliteDice(Body)} :
            /\ num_satellites <= most
            /\ loc' = [loc EXCEPT !.j = num_satellites]
            /\ pc' = "genSatellite"
     ELSE /\ loc' = [loc EXCEPT !.i = @ + 1]
          /\ pc' = "satellites"
  /\ UNCHANGED <<sys, main_world, err>>
  /\ Quiet

NumSatellites == NumSatellitesUpTo(MaxSatellites)

\* fillSystem, lines 1417-1419, with the size roll drawn from size_dice
GenSatelliteFrom(size_dice) ==
  /\ pc = "genSatellite"
  /\ loc.j > 0
  /\ \E sats \in {genSatellite(Body, size_roll, die, roll, r12).sats
                  : size_roll \in size_dice, die \in Roll1D, roll \in Roll2D, r12 \in OrbitDice} :
       sys' = [sys EXCEPT ![loc.id].orbits[loc.i + 1].sats = sats]
  /\ loc' = [loc EXCEPT !.j = @ - 1]
  /\ UNCHANGED <<pc, main_world, err>>
  /\ Quiet

GenSatellite == GenSatelliteFrom(SatelliteDice(Body))

\* fillSystem, line 1420
CleanSatellites ==
  /\ pc = "genSatellite"
  /\ loc.j = 0
  /\ sys' = [sys EXCEPT ![loc.id].orbits[loc.i + 1].sats = clean_satellites(@)]
  /\ cleaned' = [called |-> TRUE, satellites |-> Body.sats]
  /\ loc' = [loc EXCEPT !.i = @ + 1]
  /\ pc' = "satellites"
  /\ giants' = NoGiants
  /\ UNCHANGED <<main_world, err, uwp, codec>>

\* fillSystem, lines 1424-1429: the companions beyond contact are filled in
\* turn, a far companion's own secondary right after it
FillOrder == <<"P", "S", "SS", "T", "TS">>
Fillable(id) == sys[id].exists /\ sys[id].orbit > 0
Position(id) == CHOOSE n \in 1..Len(FillOrder) : FillOrder[n] = id
LaterNodes(id) == {n \in (Position(id) + 1)..Len(FillOrder) : Fillable(FillOrder[n])}

NextSystem ==
  /\ pc = "satellites"
  /\ loc.i > sys[loc.id].max_orbits
  /\ IF LaterNodes(loc.id) # {}
     THEN /\ loc' = [NoLoc EXCEPT !.id = FillOrder[CHOOSE n \in LaterNodes(loc.id) :
                                                     \A m \in LaterNodes(loc.id) : n <= m]]
          /\ pc' = "genEmptyOrbits"
     ELSE /\ loc' = NoLoc
          /\ pc' = "done"
  /\ UNCHANGED <<sys, main_world, err>>
  /\ Quiet

NextFill ==
  \/ GenEmptyOrbits \/ GenGasGiants \/ GenPlanetoids \/ PlaceMainWorld \/ GenWorlds
  \/ NumSatellites \/ GenSatellite \/ CleanSatellites \/ NextSystem

\* ---------------------------------------------------------------- the trees fillSystem starts from
\* genStars for given dice.  d.num is the 2D of genNumStars; d.type, d.size,
\* d.subtype and d.orbits the rolls for the primary's star and capacity; d.s and
\* d.t the dice of the secondary and the tertiary: orbit and die for
\* genCompanionOrbit, type, size and subtype for the star, orbits for
\* genMaxOrbits, num for genNumStars of a far companion and far for the dice
\* of its own secondary
SubCompanionOrbit(c) == genCompanionOrbit(c.far.orbit - 4, c.far.die)
HasSubCompanion(orbit, c) == orbit = FAR_ORBIT /\ genNumStars(c.num) > 1

CompanionFrom(id, primary_type_roll, primary_size_roll, orbit, c) ==
  LET companion == CompanionStar(c.type + primary_type_roll, c.size + primary_size_roll, c.subtype, orbit)
      sized == setMaxOrbits(companion, Min(orbit \div 2, genMaxOrbits(companion.star, c.orbits)))
  IN  IF HasSubCompanion(orbit, c) THEN LinkSubCompanion(sized, SubId(id), SubCompanionOrbit(c)) ELSE sized

SubCompanionFrom(primary_type_roll, primary_size_roll, c) ==
  LET inner == CompanionStar(c.far.type + c.type + primary_type_roll,
                             c.far.size + c.size + primary_size_roll, c.far.subtype, SubCompanionOrbit(c))
  IN  setMaxOrbits(inner, Min(SubCompanionOrbit(c) \div 2, genMaxOrbits(inner.star, c.far.orbits)))

StarsFrom(world, d) ==
  LET system == PrimaryStar(star_mod(world), d.type, d.size, d.subtype)
      primary == setMaxOrbits(system, genMaxOrbits(system.star, d.orbits))
      orbit2 == CompanionOrbit(primary, genCompanionOrbit(d.s.orbit, d.s.die))
      orbit3 == CompanionOrbit(primary, genCompanionOrbit(d.t.orbit + 4, d.t.die))
      num_stars == genNumStars(d.num)
      with2 == IF num_stars > 1 THEN LinkCompanion(primary, "S", orbit2) ELSE primary
      with3 == IF num_stars = 3 THEN LinkCompanion(with2, "T", orbit3) ELSE with2
  IN  [id \in NodeIds |->
         IF id = "P" THEN with3
         ELSE IF id = "S" /\ num_stars > 1 THEN CompanionFrom("S", d.type, d.size, orbit2, d.s)
         ELSE IF id = "T" /\ num_stars = 3 THEN CompanionFrom("T", d.type, d.size, orbit3, d.t)
         ELSE IF id = "SS" /\ num_stars > 1 /\ HasSubCompanion(orbit2, d.s)
         THEN SubCompanionFrom(d.type, d.size, d.s)
         ELSE IF id = "TS" /\ num_stars = 3 /\ HasSubCompanion(orbit3, d.t)
         THEN SubCompanionFrom(d.type, d.size, d.t)
         ELSE NoNode]

SubCompanion(orbit, die, type, size, subtype, orbits) ==
  [orbit |-> orbit, die |-> die, type |-> type, size |-> size, subtype |-> subtype, orbits |-> orbits]
NoSubCompanion == SubCompanion(12, 1, 2, 2, 0, 2)
Companion(orbit, die, type, size, subtype, orbits) ==
  [orbit |-> orbit, die |-> die, type |-> type, size |-> size, subtype |-> subtype, orbits |-> orbits,
   num |-> 2, far |-> NoSubCompanion]
FarCompanion(type, size, subtype, orbits, far) ==
  [orbit |-> 12, die |-> 1, type |-> type, size |-> size, subtype |-> subtype, orbits |-> orbits,
   num |-> 8, far |-> far]
NoCompanion == Companion(2, 1, 2, 2, 0, 2)
Stars(num, type, size, subtype, orbits, s, t) ==
  [num |-> num, type |-> type, size |-> size, subtype |-> subtype, orbits |-> orbits, s |-> s, t |-> t]

\* main worlds: A788899-A of src/src/App.tsx; a vacuum rock that needs no
\* habitable zone; a thin-atmosphere world that needs one but gives no star modifier
Terran == MainWorld(7, 8, 8)
Rock == MainWorld(3, 0, 5)
Thin == MainWorld(5, 3, 5)

\* runs of genStars that the population pass is explored from
SlotCases ==
  { \* a lone G5 VI with two orbits, the habitable zone at orbit 1
    <<Terran, Stars(7, 5, 11, 5, 2, NoCompanion, NoCompanion)>>,
    \* a lone M0 V with two orbits and no habitable zone
    <<Terran, Stars(7, 2, 5, 0, 6, NoCompanion, NoCompanion)>>,
    \* a lone M0 III with two orbits, both inside the hot limit
    <<Rock, Stars(7, 3, 3, 0, 2, NoCompanion, NoCompanion)>>,
    \* a lone M0 III with three orbits, two of them inside the hot limit
    <<Rock, Stars(7, 3, 3, 0, 3, NoCompanion, NoCompanion)>>,
    \* a lone M0 V with two orbits, for a world that needs no habitable zone
    <<Rock, Stars(7, 4, 6, 0, 6, NoCompanion, NoCompanion)>>,
    \* a G0 V with a secondary at orbit 1, which marks the habitable orbit 3 Empty
    <<Terran, Stars(8, 5, 5, 0, 2, Companion(4, 1, 2, 2, 0, 2), NoCompanion)>>,
    \* an M0 V with a secondary in contact
    <<Terran, Stars(8, 2, 5, 0, 6, Companion(2, 1, 2, 2, 0, 2), NoCompanion)>>,
    \* an M5 V with one orbit and a far K0 V secondary without orbits of its own,
    \* which has a secondary at orbit 2
    <<Terran, Stars(8, 3, 6, 5, 5, FarCompanion(4, 2, 0, 2, SubCompanion(9, 1, 2, 2, 0, 2)), NoCompanion)>>,
    \* a G0 V with a secondary at orbit 1 and a tertiary at orbit 3
    <<Terran, Stars(12, 5, 5, 0, 2, Companion(4, 1, 2, 2, 0, 2), Companion(2, 1, 3, 3, 5, 2))>> }

\* the same with three larger trees
FillCases ==
  SlotCases \cup
  { \* an A5 V with an F0 VI secondary in its habitable orbit 6
    <<Thin, Stars(8, 2, 5, 5, 2, Companion(7, 2, 2, 4, 0, 2), NoCompanion)>>,
    \* an M5 V with one orbit and a far G0 V secondary that has a secondary of its own at orbit 2
    <<Terran, Stars(8, 3, 6, 5, 5, FarCompanion(2, 2, 0, 2, SubCompanion(9, 1, 2, 2, 0, 7)), NoCompanion)>>,
    \* an M0 III with a secondary at orbit 2 and a tertiary at orbit 3
    <<Rock, Stars(12, 3, 3, 0, 2, Companion(5, 1, 2, 2, 0, 2), Companion(2, 1, 2, 2, 0, 2))>> }

InitSlots ==
  /\ pc = "genEmptyOrbits"
  /\ \E c \in SlotCases :
       /\ main_world = c[1]
       /\ sys = StarsFrom(c[1], c[2])
  /\ loc = FillStart
  /\ err = "none"
  /\ Unobserved

SpecSlots == InitSlots /\ [][NextFill]_vars

InitFill ==
  /\ pc = "genEmptyOrbits"
  /\ \E c \in FillCases :
       /\ main_world = c[1]
       /\ sys = StarsFrom(c[1], c[2])
  /\ loc = FillStart
  /\ err = "none"
  /\ Unobserved

SpecFill == InitFill /\ [][NextFill]_vars


\* ---------------------------------------------------------------- the gas giant phase alone
\* the lone stars whose first three phases are explored with up to MaxGiantOrbits orbits
MaxGiantOrbits == 3

GiantCases ==
  { <<Terran, Stars(7, type, size, subtype, orbits, NoCompanion, NoCompanion)>>
    : type \in {2, 5}, size \in {5, 11}, subtype \in {0, 5}, orbits \in Roll2D }

InitGiants ==
  /\ pc = "genEmptyOrbits"
  /\ \E c \in GiantCases :
       /\ main_world = c[1]
       /\ sys = StarsFrom(c[1], c[2])
  /\ sys["P"].max_orbits <= MaxGiantOrbits
  /\ loc = FillStart
  /\ err = "none"
  /\ Unobserved

NextGiants == GenEmptyOrbits \/ GenGasGiants \/ GenPlanetoids
SpecGiants == InitGiants /\ [][NextGiants]_vars

\* ---------------------------------------------------------------- the satellites of one body
\* a body's satellites, up to MaxMoons of them, with size rolls up to MaxMoonRoll
MaxMoons == 3
MaxMoonRoll == 5

MoonDice == {r \in SatelliteDice(Body) : r <= MaxMoonRoll}

\* a lone M0 V with two orbits after the filler worlds: the main world, which
\* needs no habitable zone, and a gas giant, either of them at orbit 0; and a
\* lone G5 VI whose gas giant at the habitable orbit 1 has the main world as
\* its satellite, at the satellite orbit 3 or 4
MoonCases ==
  LET stars == StarsFrom(Rock, Stars(7, 4, 6, 0, 6, NoCompanion, NoCompanion))
      inner == [Rock EXCEPT !.orbit = 0]
      outer == [Rock EXCEPT !.orbit = 1]
      dwarf == StarsFrom(Terran, Stars(7, 5, 11, 5, 2, NoCompanion, NoCompanion))
  IN  { <<inner, [stars EXCEPT !["P"].orbits = <<MainWorldSlot(inner), GasGiantSlot(size, 1)>>]>>
        : size \in {GGSmall, GGLarge} }
        \cup { <<outer, [stars EXCEPT !["P"].orbits = <<GasGiantSlot(size, 0), MainWorldSlot(outer)>>]>>
                : size \in {GGSmall, GGLarge} }
        \cup { <<[Terran EXCEPT !.orbit = orbit, !.star_orbit = 1],
                 [dwarf EXCEPT !["P"].orbits =
                    <<WorldSlot("Planet", 0, 0, 0),
                      [GasGiantSlot(GGLarge, 1) EXCEPT
                         !.sats = <<MainWorldSlot([Terran EXCEPT !.orbit = orbit, !.star_orbit = 1])>>]>>]>>
                : orbit \in {3, 4} }

InitMoons ==
  /\ pc = "satellites"
  /\ \E c \in MoonCases :
       /\ main_world = c[1]
       /\ sys = c[2]
  /\ loc = [FillStart EXCEPT !.i = 1]
  /\ err = "none"
  /\ Unobserved

NumMoons == NumSatellitesUpTo(MaxMoons)
GenMoon == GenSatelliteFrom(MoonDice)

NextMoons == NumMoons \/ GenMoon \/ CleanSatellites
SpecMoons == InitMoons /\ [][NextMoons]_vars

\* ---------------------------------------------------------------- the UWP digits of generated bodies
\* genWorld, lines 911-930: roll is the 2D of the type A special case
genWorldAtmosphere(system, orbit, size, roll, atm_roll) ==
  LET zone == ZoneOf(system.star)
      rolled == atm_roll - 7 + size + (IF orbit <= zone.inner THEN -2 ELSE 0)
                  + (IF orbit > zone.habitable THEN -2 ELSE 0)
      floored == IF rolled <= 0 THEN 0 ELSE rolled
      special == IF roll = 12 /\ orbit > zone.habitable THEN 10 ELSE floored
  IN  IF special >= 10 THEN 10 ELSE special

\* genWorld, lines 932-948
genWorldHydro(system, orbit, size, atmosphere, roll) ==
  LET zone == ZoneOf(system.star)
      rolled == roll - 7 + size + (IF orbit > zone.habitable THEN -4 ELSE 0)
                  + (IF atmosphere <= 1 \/ atmosphere >= 10 THEN -4 ELSE 0)
      dry == IF size <= 0 \/ orbit <= zone.inner THEN 0 ELSE rolled
  IN  IF dry < 0 THEN 0 ELSE IF dry >= 10 THEN 10 ELSE dry

\* the last clamp of genWorld and genPlanetoids
BelowMainWorld(population, world) ==
  LET floored == IF population < 0 THEN 0 ELSE population
  IN  IF floored >= world.population THEN world.population - 1 ELSE floored

\* genWorld, lines 950-965
genWorldPopulation(system, orbit, atmosphere, roll, world) ==
  LET zone == ZoneOf(system.star)
  IN  BelowMainWorld(roll - 2 + (IF orbit <= zone.inner THEN -5 ELSE 0)
                       + (IF orbit > zone.habitable THEN -5 ELSE 0)
                       + (IF atmosphere \notin {0, 5, 6, 8} THEN -2 ELSE 0), world)

\* genPlanetoids, lines 786-798
genPlanetoidPopulation(system, orbit, roll, world) ==
  LET zone == ZoneOf(system.star)
  IN  BelowMainWorld(roll - 2 + (IF orbit <= zone.inner THEN -5 ELSE 0)
                       + (IF orbit > zone.habitable THEN -5 ELSE 0), world)

\* genSatellite, lines 1100-1116
genSatelliteAtmosphere(system, primary, size, roll, atm_roll) ==
  LET zone == ZoneOf(system.star)
      rolled == atm_roll - 7 + size + (IF primary.orbit <= zone.inner THEN -4 ELSE 0)
                  + (IF primary.orbit > zone.habitable THEN -4 ELSE 0)
      floored == IF rolled <= 1 THEN 0 ELSE rolled
  IN  IF roll = 12 /\ primary.orbit > zone.habitable THEN 10 ELSE floored

\* genSatellite, lines 1118-1131
genSatelliteHydro(system, primary, size, atmosphere, roll) ==
  LET zone == ZoneOf(system.star)
      rolled == roll - 7 + size + (IF primary.orbit > zone.habitable THEN -4 ELSE 0)
                  + (IF atmosphere <= 1 \/ atmosphere >= 10 THEN -4 ELSE 0)
      floored == IF rolled < 0 THEN 0 ELSE rolled
  IN  IF size <= 0 \/ primary.orbit <= zone.inner THEN 0 ELSE floored

\* genSatellite, lines 1133-1144
genSatellitePopulation(system, primary, atmosphere, roll) ==
  LET zone == ZoneOf(system.star)
      rolled == roll - 2 + (IF primary.orbit <= zone.inner THEN -5 ELSE 0)
                  + (IF primary.orbit > zone.habitable THEN -4 ELSE 0)
                  + (IF atmosphere \notin {5, 6, 8} THEN -2 ELSE 0)
  IN  IF rolled < 0 THEN 0 ELSE rolled

UWP(kind, orbit, size, atmosphere, hydro, population) ==
  [kind |-> kind, orbit |-> orbit, size |-> size, atmosphere |-> atmosphere, hydro |-> hydro,
   population |-> population]

\* the orbits of the star whose slot can be null when a phase looks at it
OpenOrbits == 0..(sys["P"].max_orbits - 1)

\* genWorld for a null slot of the primary
GenWorldDigits ==
  /\ pc = "bodies"
  /\ \E orbit \in OpenOrbits :
     \E size \in {genWorldSize(sys["P"], orbit, roll) : roll \in Roll2D} :
     \E atmosphere \in {genWorldAtmosphere(sys["P"], orbit, size, roll, atm_roll)
                        : roll \in Roll2D, atm_roll \in Roll2D} :
     \E hydro \in {genWorldHydro(sys["P"], orbit, size, atmosphere, roll) : roll \in Roll2D} :
     \E population \in {genWorldPopulation(sys["P"], orbit, atmosphere, roll, main_world) : roll \in Roll2D} :
       uwp' = UWP("world", orbit, size, atmosphere, hydro, population)
  /\ pc' = "generated"
  /\ UNCHANGED <<sys, main_world, loc, err, giants, cleaned, codec>>

\* the belt genPlanetoids puts in a null slot of the primary
GenPlanetoidDigits ==
  /\ pc = "bodies"
  /\ \E orbit \in OpenOrbits, roll \in Roll2D :
       uwp' = UWP("belt", orbit, 0, 0, 0, genPlanetoidPopulation(sys["P"], orbit, roll, main_world))
  /\ pc' = "generated"
  /\ UNCHANGED <<sys, main_world, loc, err, giants, cleaned, codec>>

\* the bodies at orbit 1 that the satellites pass can find
Primaries ==
  {GasGiantSlot(size, 1) : size \in {GGSmall, GGLarge}}
    \cup {WorldSlot("Planet", 1, 1, genWorldSize(sys["P"], 1, roll)) : roll \in Roll2D}

\* genSatellite for a body of the primary: a ring, or a satellite with digits
GenSatelliteDigits ==
  /\ pc = "bodies"
  /\ \E primary \in {p \in Primaries : IsGasGiant(p) \/ p.size > 0} :
     \E size \in {SatelliteSize(primary, roll) : roll \in SatelliteDice(primary)} :
       IF size = 0
       THEN uwp' = UWP("ring", primary.orbit, 0, 0, 0, 0)
       ELSE \E atmosphere \in {genSatelliteAtmosphere(sys["P"], primary, size, roll, atm_roll)
                               : roll \in Roll2D, atm_roll \in Roll2D} :
            \E hydro \in {genSatelliteHydro(sys["P"], primary, size, atmosphere, roll) : roll \in Roll2D} :
            \E population \in {genSatellitePopulation(sys["P"], primary, atmosphere, roll) : roll \in Roll2D} :
              uwp' = UWP("satellite", primary.orbit, size, atmosphere, hydro, population)
  /\ pc' = "generated"
  /\ UNCHANGED <<sys, main_world, loc, err, giants, cleaned, codec>>

\* a lone G5 VI with two orbits, for main worlds of every population
InitBodies ==
  /\ pc = "bodies"
  /\ \E population \in 0..15 :
       /\ main_world = MainWorld(7, 8, population)
       /\ sys = StarsFrom(main_world, Stars(7, 5, 11, 5, 2, NoCompanion, NoCompanion))
  /\ loc = FillStart
  /\ err = "none"
  /\ Unobserved

NextBodies == GenWorldDigits \/ GenPlanetoidDigits \/ GenSatelliteDigits
SpecBodies == InitBodies /\ [][NextBodies]_vars

\* ---------------------------------------------------------------- the UPP string of a world
\* enum PortCode, by name
PortCode == {"A", "B", "C", "D", "E", "X", "Y", "H", "G", "F"}

\* decimalToHex: the digit of 0..15; anything else throws
HexDigits == <<"0", "1", "2", "3", "4", "5", "6", "7", "8", "9", "A", "B", "C", "D", "E", "F">>
decimalToHexThrows(decimal) == decimal < 0 \/ decimal > 15
decimalToHex(decimal) == HexDigits[decimal + 1]

\* String.prototype.toLowerCase on the characters a UPP string can hold
toLowerCase(ch) ==
  CASE ch = "A" -> "a" [] ch = "B" -> "b" [] ch = "C" -> "c" [] ch = "D" -> "d" [] ch = "E" -> "e"
    [] ch = "F" -> "f" [] ch = "G" -> "g" [] ch = "S" -> "s" [] ch = "R" -> "r" [] ch = "Z" -> "z"
    [] OTHER -> ch

\* hexToDecimal: the table hexValues; a character outside it throws
hexValues ==
  [ch \in {"0", "1", "2", "3", "4", "5", "6", "7", "8", "9", "a", "b", "c", "d", "e", "f"} |->
     CASE ch = "0" -> 0 [] ch = "1" -> 1 [] ch = "2" -> 2 [] ch = "3" -> 3 [] ch = "4" -> 4
       [] ch = "5" -> 5 [] ch = "6" -> 6 [] ch = "7" -> 7 [] ch = "8" -> 8 [] ch = "9" -> 9
       [] ch = "a" -> 10 [] ch = "b" -> 11 [] ch = "c" -> 12 [] ch = "d" -> 13 [] ch = "e" -> 14
       [] ch = "f" -> 15]
hexToDecimalThrows(hex) == toLowerCase(hex) \notin DOMAIN hexValues
hexToDecimal(hex) == hexValues[toLowerCase(hex)]

\* World.to_upp: the size character
size_digit(w) ==
  IF (w.is_satellite /\ w.size = -1)
       \/ (w.size <= 0 /\ ~w.is_mainworld /\ ~w.is_satellite /\ w.name # "Planetoid Belt")
  THEN "S"
  ELSE IF w.is_satellite /\ w.size = 0 THEN "R"
  ELSE IF w.size = 0 THEN "0"
  ELSE decimalToHex(w.size)

to_upp_throws(w) ==
  \/ size_digit(w) \notin {"S", "R", "0"} /\ decimalToHexThrows(w.size)
  \/ \E d \in {w.atmosphere, w.hydro, w.population, w.government, w.law_level, w.tech_level} :
       decimalToHexThrows(d)

\* World.to_upp: the nine characters of the string
to_upp(w) ==
  <<w.port, size_digit(w), decimalToHex(w.atmosphere), decimalToHex(w.hydro), decimalToHex(w.population),
    decimalToHex(w.government), decimalToHex(w.law_level), "-", decimalToHex(w.tech_level)>>

\* from_upp reading the separator as one more digit
from_upp_throwsOnSeparator(upp) == \E i \in {2, 3, 4, 5, 6, 7, 8, 9} : hexToDecimalThrows(upp[i])

from_upp_throws(upp) == \E i \in {2, 3, 4, 5, 6, 7, 9} : hexToDecimalThrows(upp[i])

\* World.from_upp
from_upp(name, upp, is_satellite, is_mainworld) ==
  [name |-> name, port |-> IF upp[1] \in PortCode THEN upp[1] ELSE "Y",
   size |-> hexToDecimal(upp[2]), atmosphere |-> hexToDecimal(upp[3]), hydro |-> hexToDecimal(upp[4]),
   population |-> hexToDecimal(upp[5]), government |-> hexToDecimal(upp[6]),
   law_level |-> hexToDecimal(upp[7]), tech_level |-> hexToDecimal(upp[9]),
   is_satellite |-> is_satellite, is_mainworld |-> is_mainworld]

\* the worlds a system holds: the main world, filler worlds, belts, satellites
\* (size -1 for the small ones) and rings
WorldKinds ==
  {[name |-> "Main World", is_satellite |-> FALSE, is_mainworld |-> TRUE, size |-> size] : size \in 0..15}
    \cup {[name |-> "Planet", is_satellite |-> FALSE, is_mainworld |-> FALSE, size |-> size] : size \in 0..10}
    \cup {[name |-> "Planetoid Belt", is_satellite |-> FALSE, is_mainworld |-> FALSE, size |-> 0]}
    \cup {[name |-> "Moon", is_satellite |-> TRUE, is_mainworld |-> FALSE, size |-> size] : size \in (-1..8) \ {0}}
    \cup {[name |-> "Ring System", is_satellite |-> TRUE, is_mainworld |-> FALSE, size |-> 0]}

\* rows of digits that put every value 0..15 in every position
DigitRows == {[i \in 1..6 |-> (d + i) % 16] : d \in 0..15}

InitUpp ==
  /\ pc = "to_upp"
  /\ \E kind \in WorldKinds, port \in PortCode, row \in DigitRows :
       codec = [state |-> "world",
                world |-> [name |-> kind.name, port |-> port, size |-> kind.size, atmosphere |-> row[1],
                           hydro |-> row[2], population |-> row[3], government |-> row[4],
                           law_level |-> row[5], tech_level |-> row[6],
                           is_satellite |-> kind.is_satellite, is_mainworld |-> kind.is_mainworld]]
  /\ main_world = Terran
  /\ sys = [id \in NodeIds |-> NoNode]
  /\ loc = NoLoc
  /\ err = "none"
  /\ giants = NoGiants /\ cleaned = NoCleaned /\ uwp = NoBody

ToUpp ==
  /\ pc = "to_upp"
  /\ IF to_upp_throws(codec.world)
     THEN /\ codec' = [codec EXCEPT !.state = "failed"]
          /\ err' = "Error"
          /\ pc' = "failed"
     ELSE /\ codec' = [state |-> "encoded", world |-> codec.world, upp |-> to_upp(codec.world)]
          /\ err' = err
          /\ pc' = "from_upp"
  /\ UNCHANGED <<sys, main_world, loc, giants, cleaned, uwp>>

FromUpp ==
  /\ pc = "from_upp"
  /\ IF from_upp_throws(codec.upp)
     THEN /\ codec' = [codec EXCEPT !.state = "failed"]
          /\ err' = "Error"
          /\ pc' = "failed"
     ELSE /\ codec' = [state |-> "decoded", world |-> codec.world, upp |-> codec.upp,
                       read |-> from_upp(codec.world.name, codec.upp, codec.world.is_satellite,
                                         codec.world.is_mainworld)]
          /\ err' = err
          /\ pc' = "done"
  /\ UNCHANGED <<sys, main_world, loc, giants, cleaned, uwp>>

NextUpp == ToUpp \/ FromUpp
SpecUpp == InitUpp /\ [][NextUpp]_vars

\* strings of nine characters: any port character, digits in either case or
\* no digits at all, any separator
UppStrings ==
  {<<port>> \o digits \o <<separator, tech_level>>
     : port \in {"A", "Z", "a"}, digits \in [1..6 -> {"7", "c", "E", "G"}],
       separator \in {"-", " ", "x"}, tech_level \in {"9", "b", "g"}}

InitParse ==
  /\ pc = "from_upp"
  /\ \E upp \in UppStrings :
       codec = [state |-> "encoded", upp |-> upp,
                world |-> [name |-> "Main World", is_satellite |-> FALSE, is_mainworld |-> TRUE]]
  /\ main_world = Terran
  /\ sys = [id \in NodeIds |-> NoNode]
  /\ loc = NoLoc
  /\ err = "none"
  /\ giants = NoGiants /\ cleaned = NoCleaned /\ uwp = NoBody

NextParse == FromUpp
SpecParse == InitParse /\ [][NextParse]_vars

\* ---------------------------------------------------------------- the stars of a primary and a companion
\* genStars, lines 576-588: the primary's star for every roll
RollPrimaryStar ==
  /\ pc = "genStars"
  /\ \E tr \in Roll2D, sr \in Roll2D, sub \in SubTypes :
       /\ sys' = [sys EXCEPT !["P"] = PrimaryStar(star_mod(main_world), tr, sr, sub)]
       /\ loc' = [NoLoc EXCEPT !.num_stars = 2, !.type_roll = tr, !.size_roll = sr, !.id = "S"]
  /\ pc' = "companionStar"
  /\ UNCHANGED <<main_world, err>>
  /\ Quiet

\* genCompanionSystem, lines 479-487: the companion's star for every roll
RollCompanionStar ==
  /\ pc = "companionStar"
  /\ \E r1 \in Roll2D, r2 \in Roll2D, sub \in SubTypes :
       sys' = [sys EXCEPT !["S"] = CompanionStar(r1 + loc.type_roll, r2 + loc.size_roll, sub, 0)]
  /\ pc' = "rolled"
  /\ UNCHANGED <<main_world, loc, err>>
  /\ Quiet

NextStarPairs == RollPrimaryStar \/ RollCompanionStar
SpecStarPairs == InitStars /\ [][NextStarPairs]_vars

\* ---------------------------------------------------------------- trade classes
\* world.trade_classes.push(name) under a condition
Tag(name, cond) == IF cond THEN {name} ELSE {}

\* the tags with the water-world test one step late
genTradeClassesLate(w) ==
  Tag("Agricultural", w.atmosphere >= 4 /\ w.atmosphere <= 9 /\ w.hydro >= 4 /\ w.hydro <= 8
                        /\ w.population >= 5 /\ w.population <= 7)
    \cup Tag("NonAgricultural", w.atmosphere <= 3 /\ w.hydro <= 3 /\ w.population >= 6)
    \cup Tag("Industrial", w.atmosphere \in {0, 1, 2, 4, 7, 9} /\ w.population >= 9)
    \cup Tag("NonIndustrial", w.population > 0 /\ w.population <= 6)
    \cup Tag("Rich", w.atmosphere \in {6, 8} /\ w.population \in {6, 7, 8}
                       /\ w.government >= 4 /\ w.government <= 9)
    \cup Tag("Poor", w.population >= 0 /\ w.atmosphere >= 2 /\ w.atmosphere <= 5 /\ w.hydro <= 3)
    \cup Tag("WaterWorld", w.hydro > 10)
    \cup Tag("DesertWorld", w.hydro <= 0 /\ w.atmosphere > 1)
    \cup Tag("Icecapped", w.atmosphere <= 1 /\ w.hydro >= 10)

\* genTradeClasses: the tags pushed for the digits of w
genTradeClasses(w) ==
  Tag("Agricultural", w.atmosphere >= 4 /\ w.atmosphere <= 9 /\ w.hydro >= 4 /\ w.hydro <= 8
                        /\ w.population >= 5 /\ w.population <= 7)
    \cup Tag("NonAgricultural", w.atmosphere <= 3 /\ w.hydro <= 3 /\ w.population >= 6)
    \cup Tag("Industrial", w.atmosphere \in {0, 1, 2, 4, 7, 9} /\ w.population >= 9)
    \cup Tag("NonIndustrial", w.population > 0 /\ w.population <= 6)
    \cup Tag("Rich", w.atmosphere \in {6, 8} /\ w.population \in {6, 7, 8}
                       /\ w.government >= 4 /\ w.government <= 9)
    \cup Tag("Poor", w.population >= 0 /\ w.atmosphere >= 2 /\ w.atmosphere <= 5 /\ w.hydro <= 3)
    \cup Tag("WaterWorld", w.hydro >= 10)
    \cup Tag("DesertWorld", w.hydro <= 0 /\ w.atmosphere > 1)
    \cup Tag("Icecapped", w.atmosphere <= 1 /\ w.hydro >= 10)

\* a world of any four digits, its list of trade classes still empty
InitTrade ==
  /\ pc = "genTradeClasses"
  /\ \E atmosphere \in 0..15, hydro \in 0..15, population \in 0..15, government \in 0..15 :
       uwp = [kind |-> "digits", atmosphere |-> atmosphere, hydro |-> hydro, population |-> population,
              government |-> government, trade_classes |-> {}]
  /\ main_world = Terran
  /\ sys = [id \in NodeIds |-> NoNode]
  /\ loc = NoLoc
  /\ err = "none"
  /\ giants = NoGiants /\ cleaned = NoCleaned /\ codec = NoCodec

GenTradeClasses ==
  /\ pc = "genTradeClasses"
  /\ uwp' = [uwp EXCEPT !.kind = "classified", !.trade_classes = @ \cup genTradeClasses(uwp)]
  /\ pc' = "classified"
  /\ UNCHANGED <<sys, main_world, loc, err, giants, cleaned, codec>>

NextTrade == GenTradeClasses
SpecTrade == InitTrade /\ [][NextTrade]_vars

\* ---------------------------------------------------------------- nesting of genCompanionSystem
\* calls of genCompanionSystem nested deeper than MaxNesting are not explored
MaxNesting == 5

\* genStars has built the primary and calls genCompanionSystem for its
\* secondary or tertiary; loc.path holds the orbit argument of every call of
\* genCompanionSystem that is open or has returned, outermost first
InitNesting ==
  /\ pc = "genCompanionSystem"
  /\ main_world \in MainWorlds
  /\ \E tr \in Roll2D, sr \in Roll2D, sub \in SubTypes :
       sys = [[id \in NodeIds |-> NoNode] EXCEPT !["P"] = PrimaryStar(star_mod(main_world), tr, sr, sub)]
  /\ \E id \in {"S", "T"}, ro \in Roll2D, d \in Roll1D :
       loc = [id |-> id, num_stars |-> 0,
              path |-> <<CompanionOrbit(sys["P"], genCompanionOrbit(IF id = "T" THEN ro + 4 ELSE ro, d))>>]
  /\ err = "none"
  /\ Unobserved

\* genCompanionSystem, line 489: setMaxOrbits(Math.min(Math.floor(orbit / 2), ...))
\* throws RangeError for a negative length; line 494: a far companion rolls
\* its number of stars
BuildCompanion ==
  /\ pc = "genCompanionSystem"
  /\ LET orbit == loc.path[Len(loc.path)]
     IN  IF orbit \div 2 < 0
         THEN /\ err' = "RangeError"
              /\ pc' = "failed"
              /\ UNCHANGED loc
         ELSE /\ IF orbit = FAR_ORBIT
                 THEN /\ \E roll \in Roll2D : loc' = [loc EXCEPT !.num_stars = genNumStars(roll)]
                      /\ pc' = "far companion"
                 ELSE /\ pc' = "returned"
                      /\ UNCHANGED loc
              /\ UNCHANGED err
  /\ UNCHANGED <<sys, main_world>>
  /\ Quiet

\* genCompanionSystem, lines 495-502: with more than one star the far companion
\* rolls the orbit of its secondary and calls genCompanionSystem for it
NestCompanion ==
  /\ pc = "far companion"
  /\ IF loc.num_stars > 1
     THEN /\ Len(loc.path) < MaxNesting
          /\ \E ro \in Roll2D, d \in Roll1D :
               loc' = [loc EXCEPT !.path = Append(@, genCompanionOrbit(ro - 4, d)), !.num_stars = 0]
          /\ pc' = "genCompanionSystem"
     ELSE /\ pc' = "returned"
          /\ UNCHANGED loc
  /\ UNCHANGED <<sys, main_world, err>>
  /\ Quiet

NextNesting == BuildCompanion \/ NestCompanion
SpecNesting == InitNesting /\ [][NextNesting]_vars /\ WF_vars(NextNesting)

\* ---------------------------------------------------------------- the orbits of companions
\* genStars has built a primary (its dice within StarDice) and is about to
\* build its secondary or its tertiary
InitOrbits ==
  /\ pc = "companion"
  /\ main_world \in {Terran, Rock}
  /\ \E tr \in StarDice, sr \in StarDice, sub \in SubTypes, id \in {"S", "T"} :
       /\ sys = [[n \in NodeIds |-> NoNode] EXCEPT !["P"] = PrimaryStar(star_mod(main_world), tr, sr, sub)]
       /\ loc = [NoLoc EXCEPT !.type_roll = tr, !.size_roll = sr, !.id = id]
  /\ err = "none"
  /\ Unobserved

\* genStars, lines 593-596 and 610-613, and genCompanionSystem, lines 479-487:
\* the orbit of the companion and its star, with every roll of the dice; the
\* capacity of line 489 is not followed here
RollCompanion ==
  /\ pc = "companion"
  /\ \E orbit \in { CompanionOrbit(sys["P"], genCompanionOrbit(IF loc.id = "T" THEN ro + 4 ELSE ro, d))
                    : ro \in Roll2D, d \in Roll1D },
        companion_type_roll \in {r + loc.type_roll : r \in Roll2D},
        companion_size_roll \in {r + loc.size_roll : r \in Roll2D},
        sub \in SubTypes :
       /\ sys' = [sys EXCEPT ![loc.id] = CompanionStar(companion_type_roll, companion_size_roll, sub, orbit)]
       /\ IF orbit = FAR_ORBIT
          THEN /\ loc' = [loc EXCEPT !.orbit = orbit, !.ctype_roll = companion_type_roll,
                                     !.csize_roll = companion_size_roll]
               /\ pc' = "far"
          ELSE /\ loc' = [loc EXCEPT !.orbit = orbit]
               /\ pc' = "rolled"
  /\ UNCHANGED <<main_world, err>>
  /\ Quiet

\* genCompanionSystem, lines 494-502: the far companion's own secondary, whose
\* orbit roll carries -4; a negative orbit makes line 489 of the nested call
\* throw before the star is linked
RollSubCompanion ==
  /\ pc = "far"
  /\ \E alone \in {genNumStars(n) <= 1 : n \in Roll2D} :
       IF alone
       THEN /\ pc' = "rolled"
            /\ loc' = [loc EXCEPT !.ctype_roll = 0, !.csize_roll = 0]
            /\ UNCHANGED <<sys, err>>
       ELSE \E orbit \in { genCompanionOrbit(ro - 4, d) : ro \in Roll2D, d \in Roll1D },
               companion \in { CompanionStar(r1 + loc.ctype_roll, r2 + loc.csize_roll, sub, 0)
                               : r1 \in Roll2D, r2 \in Roll2D, sub \in SubTypes } :
              IF orbit \div 2 < 0
              THEN /\ err' = "RangeError"
                   /\ pc' = "failed"
                   /\ UNCHANGED <<sys, loc>>
              ELSE /\ sys' = [sys EXCEPT ![SubId(loc.id)] = [companion EXCEPT !.orbit = orbit],
                                         ![loc.id].secondary = SubId(loc.id)]
                   /\ loc' = [loc EXCEPT !.ctype_roll = 0, !.csize_roll = 0]
                   /\ pc' = "rolled"
                   /\ UNCHANGED err
  /\ UNCHANGED main_world
  /\ Quiet

NextOrbits == RollCompanion \/ RollSubCompanion
SpecOrbits == InitOrbits /\ [][NextOrbits]_vars

\* ---------------------------------------------------------------- subordinate stats and facilities
MaxBodyPopulation == 5
MaxBodyAtmosphere == 10

\* genSubordinateStats: the body with port, government, law level and tech level set
genSubordinateStats(world, main, gov_roll, law_roll, port_roll) ==
  LET population == world.population
      gov_mod == IF main.government = 6 THEN population ELSE IF main.government >= 7 THEN 1 ELSE 0
      rolled_gov == CASE gov_roll + gov_mod = 1 -> 0
                      [] gov_roll + gov_mod = 2 -> 1
                      [] gov_roll + gov_mod = 3 -> 2
                      [] gov_roll + gov_mod = 4 -> 3
                      [] OTHER -> 6
      government == IF population <= 0 THEN 0 ELSE rolled_gov
      rolled_law == law_roll - 3 + main.law_level
      law_level == IF rolled_law <= 0 \/ population <= 0 THEN 0 ELSE rolled_law
      below_main == main.tech_level - 1
      tech_level == IF below_main <= 0 \/ population <= 0 THEN 0 ELSE below_main
      raised == IF population > 0 /\ world.atmosphere \notin {5, 6, 8} /\ tech_level < 7 THEN 7 ELSE tech_level
      port_mod == CASE population = 0 -> -3
                    [] population = 1 -> -2
                    [] population \in 2..5 -> 0
                    [] OTHER -> 2
      port == IF port_roll + port_mod <= 2 THEN "Y"
              ELSE IF port_roll + port_mod = 3 THEN "H"
              ELSE IF port_roll + port_mod <= 5 THEN "G" ELSE "F"
  IN  [world EXCEPT !.port = port, !.government = government, !.law_level = law_level,
                    !.tech_level = raised, !.facilities = {}]

\* the research lab that lowers the tech level it should raise
genSubordinateFacilitiesLower(system, world, orbit, main, lab_roll, roll) ==
  LET lab == /\ main.population > 0
             /\ main.tech_level > 8
             /\ lab_roll + (IF main.tech_level >= 10 THEN 2 ELSE 0)
                  + (IF world.population = 0 THEN -2 ELSE 0) >= 12
  IN  [world EXCEPT !.facilities = @ \cup Tag("Lab", lab),
                    !.tech_level = IF lab THEN main.tech_level - 4 ELSE @]

\* genSubordinateFacilities: the body with its facilities pushed; the main
\* world carries the trade classes of generateSystem and no facilities
genSubordinateFacilities(system, world, orbit, main, lab_roll, roll) ==
  LET zone == ZoneOf(system.star)
      lab == /\ main.population > 0
             /\ main.tech_level > 8
             /\ lab_roll + (IF main.tech_level >= 10 THEN 2 ELSE 0)
                  + (IF world.population = 0 THEN -2 ELSE 0) >= 12
      mod == (IF main.population >= 8 THEN 1 ELSE 0) + (IF main.atmosphere = world.atmosphere THEN 2 ELSE 0)
  IN  [world EXCEPT
         !.facilities = @ \cup Tag("Mining", "Industrial" \in genTradeClasses(main) /\ world.population >= 2)
                          \cup Tag("Farming", /\ orbit = zone.habitable /\ orbit > zone.inner
                                              /\ world.atmosphere >= 4 /\ world.atmosphere <= 9
                                              /\ world.hydro >= 4 /\ world.hydro <= 8
                                              /\ world.population >= 2)
                          \cup Tag("Colony", world.government = 6 /\ world.population >= 5)
                          \cup Tag("Lab", lab)
                          \cup Tag("Military", /\ "Poor" \notin genTradeClasses(main)
                                               /\ world.population > 0 /\ roll + mod >= 12),
         !.tech_level = IF lab /\ @ = main.tech_level - 1 THEN main.tech_level ELSE @]

\* new World(...): the body genWorld, genPlanetoids or genSatellite has made
NewWorld(kind, orbit, size, atmosphere, hydro, population) ==
  [kind |-> kind, orbit |-> orbit, size |-> size, atmosphere |-> atmosphere, hydro |-> hydro,
   population |-> population, port |-> "A", government |-> 0, law_level |-> 0, tech_level |-> 0,
   facilities |-> {}, trade_classes |-> {}]

\* main worlds of several tech levels, and one without people
StatsMainWorlds ==
  {[MainWorld(7, 8, 8) EXCEPT !.tech_level = tech_level] : tech_level \in {0, 9, 10}}
    \cup {MainWorld(7, 8, 0)}

\* a lone G5 VI; a world or satellite of any atmosphere, a belt or a ring, made
\* and not yet given stats; the population can be -1 below a main world of
\* population 0
InitStats ==
  /\ pc = "genSubordinateStats"
  /\ main_world \in StatsMainWorlds
  /\ sys = StarsFrom(main_world, Stars(7, 5, 11, 5, 2, NoCompanion, NoCompanion))
  /\ \E orbit \in OpenOrbits, population \in -1..MaxBodyPopulation :
       \/ \E atmosphere \in 0..MaxBodyAtmosphere :
            uwp = NewWorld("world", orbit, 5, atmosphere, 5, population)
       \/ uwp = NewWorld("belt", orbit, 0, 0, 0, population)
       \/ uwp = NewWorld("ring", orbit, 0, 0, 0, 0)
  /\ loc = FillStart
  /\ err = "none"
  /\ giants = NoGiants /\ cleaned = NoCleaned /\ codec = NoCodec

GenSubordinateStats ==
  /\ pc = "genSubordinateStats"
  /\ uwp.kind # "ring"
  /\ uwp' \in {genSubordinateStats(uwp, main_world, gov_roll, law_roll, port_roll)
               : gov_roll \in Roll1D, law_roll \in Roll1D, port_roll \in Roll1D}
  /\ pc' = "genSubordinateFacilities"
  /\ UNCHANGED <<sys, main_world, loc, err, giants, cleaned, codec>>

GenSubordinateFacilities ==
  /\ pc = "genSubordinateFacilities"
  /\ uwp' \in {genSubordinateFacilities(sys["P"], uwp, uwp.orbit, main_world, lab_roll, roll)
               : lab_roll \in Roll2D, roll \in Roll2D}
  /\ pc' = "placed"
  /\ UNCHANGED <<sys, main_world, loc, err, giants, cleaned, codec>>

\* genSatellite returns a ring as it is made, with port Y
PushRing ==
  /\ pc = "genSubordinateStats"
  /\ uwp.kind = "ring"
  /\ uwp' = [uwp EXCEPT !.port = "Y"]
  /\ pc' = "placed"
  /\ UNCHANGED <<sys, main_world, loc, err, giants, cleaned, codec>>

NextStats == GenSubordinateStats \/ GenSubordinateFacilities \/ PushRing
SpecStats == InitStats /\ [][NextStats]_vars

\* ---------------------------------------------------------------- the facilities of a satellite
MaxFarmSpread == 1
\* the upper rolls of 2D
FarmDice == {roll \in Roll2D : roll >= 12 - MaxFarmSpread}

\* a lone G0 V with five orbits, the habitable zone at orbit 3, and a large gas
\* giant in one of its slots, which the satellites loop of fillSystem has reached
InitFarm ==
  /\ pc = "genSatellite"
  /\ main_world = Terran
  /\ \E i \in 0..4 :
       /\ sys = [StarsFrom(Terran, Stars(7, 5, 7, 0, 5, NoCompanion, NoCompanion))
                   EXCEPT !["P"].orbits = ArraySet(@, i, GasGiantSlot(GGLarge, i))]
       /\ loc = [FillStart EXCEPT !.i = i]
  /\ err = "none"
  /\ Unobserved

\* genSatellite, lines 1072-1157: the size, the orbit around the primary and the
\* digits of the new satellite; new World(name, orbit, primary.orbit, ...)
MakeSatellite ==
  /\ pc = "genSatellite"
  /\ LET primary == ArrayGet(sys["P"].orbits, loc.i)
     IN  \E size \in {SatelliteSize(primary, roll) : roll \in FarmDice} :
         \E orbit \in {genSatelliteOrbit(primary, size = 0, die, roll, r12)
                       : die \in Roll1D, roll \in Roll2D, r12 \in OrbitDice} :
           IF size = 0
           THEN /\ uwp' = [NewWorld("ring", orbit, 0, 0, 0, 0) EXCEPT !.port = "Y"]
                /\ pc' = "placed"
           ELSE \E atmosphere \in {genSatelliteAtmosphere(sys["P"], primary, size, roll, atm_roll)
                                   : roll \in FarmDice, atm_roll \in FarmDice} :
                \E hydro \in {genSatelliteHydro(sys["P"], primary, size, atmosphere, roll) : roll \in FarmDice} :
                \E population \in {genSatellitePopulation(sys["P"], primary, atmosphere, roll)
                                   : roll \in FarmDice} :
                  /\ uwp' = NewWorld("satellite", orbit, size, atmosphere, hydro, population)
                  /\ pc' = "genSubordinateStats"
  /\ UNCHANGED <<sys, main_world, loc, err, giants, cleaned, codec>>

\* genSatellite, lines 1158-1159: the stats, then the facilities with the
\* orbit genSatelliteOrbit returned, which the new satellite stores as its orbit
NextFarm == MakeSatellite \/ GenSubordinateStats \/ GenSubordinateFacilities
SpecFarm == InitFarm /\ [][NextFarm]_vars

\* ---------------------------------------------------------------- zone lookup
\* a star of any size, type and subtype
InitZones ==
  /\ pc = "getZone"
  /\ \E size \in SizeIa..SizeD, star_type \in TypeO..TypeM, subtype \in Roll10 :
       sys = [[id \in NodeIds |-> NoNode] EXCEPT !["P"] = NewSystem(star_type, subtype, size, PRIMARY_ORBIT)]
  /\ main_world = Terran
  /\ loc = [zone |-> "none"]
  /\ err = "none"
  /\ Unobserved

GetZone ==
  /\ pc = "getZone"
  /\ loc' = [zone |-> ZoneOf(sys["P"].star)]
  /\ pc' = "zone"
  /\ UNCHANGED <<sys, main_world, err>>
  /\ Quiet

NextZones == GetZone
SpecZones == InitZones /\ [][NextZones]_vars

\* ================================================================ claims
Occupied(slot) == slot.k \in {"World", "GasGiant", "System", "Empty"}
Slots(id) == 1..Len(sys[id].orbits)

\* C1: generateSystem never ends in a hard failure: whatever the dice, the
\* star tree is built and populated without an exception.
NoHardFailure == err = "none"

\* the main world is somewhere under the node id: in its slot array, among the
\* satellites of one of its gas giants, or under a star held in its slots
RECURSIVE HoldsMainWorld(_)
HoldsMainWorld(id) ==
  \E i \in Slots(id) :
    LET slot == sys[id].orbits[i]
    IN  \/ slot.k = "World" /\ slot.main
        \/ slot.k = "GasGiant" /\ \E j \in 1..Len(slot.sats) : slot.sats[j].main
        \/ slot.k = "System" /\ HoldsMainWorld(slot.node)

\* C2: for a main world that requires the habitable zone, when generateSystem
\* has finished the primary's slot at the habitable index (or at max(inner, 0)
\* without a habitable zone) holds the main world, or a companion star that
\* still holds it, or a gas giant that still has it as a satellite.
HabitableSlotKeepsMainWorld ==
  (pc = "done" /\ requires_habitable(main_world)) =>
    LET slot == ArrayGet(sys["P"].orbits, HabitableIndex(sys["P"]))
    IN  \/ slot.k = "World" /\ slot.main
        \/ slot.k = "System" /\ HoldsMainWorld(slot.node)
        \/ slot.k = "GasGiant" /\ \E j \in 1..Len(slot.sats) : slot.sats[j].main

\* C4: the slot array of every star has exactly max_orbits entries, from
\* setMaxOrbits on: no write goes to an index >= max_orbits.
SlotArrayKeepsLength ==
  \A id \in NodeIds : sys[id].exists => Len(sys[id].orbits) = sys[id].max_orbits

\* the orbit a slot's occupant stores
StoredOrbit(slot) == IF slot.k = "System" THEN sys[slot.node].orbit ELSE slot.orbit

\* C5: after a full generation pass every occupied slot (World, GasGiant,
\* nested System, Empty) of every star stores an orbit equal to its position,
\* so no two bodies of one slot array carry the same orbit.
SlotOrbitIsPosition ==
  pc = "done" =>
    \A id \in NodeIds :
      /\ \A i \in Slots(id) : Occupied(sys[id].orbits[i]) => StoredOrbit(sys[id].orbits[i]) = i - 1
      /\ \A i, j \in Slots(id) :
           (i # j /\ Occupied(sys[id].orbits[i]) /\ Occupied(sys[id].orbits[j]))
             => StoredOrbit(sys[id].orbits[i]) # StoredOrbit(sys[id].orbits[j])

\* a finished system whose primary holds a companion at orbit 1, an Empty
\* marker at orbit 2 and the main world at orbit 3
SlotOrbitIsPositionWitness ==
  /\ pc = "done"
  /\ Len(sys["P"].orbits) = 4
  /\ sys["P"].orbits[2].k = "System"
  /\ sys["P"].orbits[3].k = "Empty"
  /\ sys["P"].orbits[4].k = "World" /\ sys["P"].orbits[4].main

\* C6: a slot that holds an Empty marker holds one in every later state: no
\* later step of the generation replaces an Empty marker by another body.
EmptyStaysEmpty ==
  [][\A id \in NodeIds : \A i \in Slots(id) :
       sys[id].orbits[i].k = "Empty"
         => (i <= Len(sys'[id].orbits) /\ sys'[id].orbits[i].k = "Empty")]_vars

\* C9: when the table count exceeds the open orbits, genGasGiants places as
\* many giants as there are open orbits, reports the shortfall, and returns
\* the number placed.
GiantShortfallReported ==
  (giants.called /\ giants.rolled > giants.open) =>
    /\ giants.placed = giants.open
    /\ giants.reported
    /\ giants.returned = giants.placed

\* C10 as the spec states it: a presence roll below 10 places no giant, a roll
\* of 10 or more places the table count, capped at the open orbits.
GiantPresenceAsStated ==
  giants.called =>
    /\ giants.presence < 10 => giants.placed = 0
    /\ giants.presence >= 10 => (giants.rolled \in 1..5 /\ giants.placed = Min(giants.rolled, giants.open))

\* C10 as the code has it: a presence roll of 10 or more places no giant, a
\* roll below 10 places the table count (1 to 5), capped at the open orbits.
GiantPresence ==
  giants.called =>
    /\ giants.presence >= 10 => giants.placed = 0
    /\ giants.presence < 10 => (giants.rolled \in 1..5 /\ giants.placed = Min(giants.rolled, giants.open))

\* five giants rolled with two orbits open, and two placed
GiantPresenceWitness ==
  giants.called /\ giants.presence < 10 /\ giants.rolled = 5 /\ giants.open = 2 /\ giants.placed = 2

\* the zero-size entries of a satellite list
Rings(sats) == {j \in 1..Len(sats) : sats[j].size = 0}
\* the satellites of the body clean_satellites has just been called on
Cleaned == ArrayGet(sys[loc.id].orbits, loc.i - 1).sats

\* C7: when a satellite list holds two or more zero-size satellites, after
\* clean_satellites exactly one zero-size satellite remains, it is the one
\* with the lowest orbit and is named "Ring System", and the orbits of the
\* satellites that remain are pairwise distinct.
RingsCollapse ==
  (cleaned.called /\ Cardinality(Rings(cleaned.satellites)) >= 2) =>
    /\ Cardinality(Rings(Cleaned)) = 1
    /\ \A j \in Rings(Cleaned) :
         /\ Cleaned[j].name = "Ring System"
         /\ \A r \in Rings(cleaned.satellites) : Cleaned[j].orbit <= cleaned.satellites[r].orbit
    /\ \A i, j \in 1..Len(Cleaned) : i # j => Cleaned[i].orbit # Cleaned[j].orbit

\* C3: every generated world other than the main world (filler world,
\* planetoid belt, satellite, ring) has 0 <= population < the main world's
\* population, for every main-world population in 0..15.
PopulationBelowMainWorld ==
  uwp.kind # "none" => (0 <= uwp.population /\ uwp.population < main_world.population)

\* C8: for every world with a valid port and digits in 0..15, whatever its
\* size encoding (hex digit, "S", "R", "0"), from_upp(to_upp(w)) with the same
\* flags succeeds and gives back the port, size, atmosphere, hydrographics,
\* population, government, law level and tech level of w.
UppRoundTrip ==
  /\ codec.state # "failed"
  /\ codec.state = "decoded" =>
       \A field \in {"port", "size", "atmosphere", "hydro", "population", "government", "law_level",
                     "tech_level"} : codec.read[field] = codec.world[field]

\* the spectral classes B0..F4 (and hotter) and K5..M9 of the boundary correction
in_b0_to_f4(star) == star.star_type < TypeF \/ (star.star_type = TypeF /\ star.subtype <= 4)
in_k5_to_m9(star) ==
  ((star.star_type = TypeK /\ star.subtype >= 5) \/ star.star_type > TypeK) /\ star.star_type <= TypeM

\* C11: no star of the tree, primary or companion, has size VI with a class
\* in B0..F4, and none has size IV with a class in K5..M9.
NoForbiddenStarSize ==
  \A id \in NodeIds :
    sys[id].exists =>
      /\ ~(sys[id].star.size = SizeVI /\ in_b0_to_f4(sys[id].star))
      /\ ~(sys[id].star.size = SizeIV /\ in_k5_to_m9(sys[id].star))

\* whether the classified world carries the tag exactly when cond holds
TagIff(name, cond) == (name \in uwp.trade_classes) <=> cond

\* what C16 says of every tag but Water World and Ice-Capped
LandTagsAsStated ==
  /\ TagIff("Agricultural", uwp.atmosphere \in 4..9 /\ uwp.hydro \in 4..8 /\ uwp.population \in 5..7)
  /\ TagIff("NonAgricultural", uwp.atmosphere <= 3 /\ uwp.hydro <= 3 /\ uwp.population >= 6)
  /\ TagIff("Industrial", uwp.atmosphere \in {0, 1, 2, 4, 7, 9} /\ uwp.population >= 9)
  /\ TagIff("NonIndustrial", uwp.population \in 1..6)
  /\ TagIff("Rich", uwp.atmosphere \in {6, 8} /\ uwp.population \in {6, 7, 8} /\ uwp.government \in 4..9)
  /\ TagIff("Poor", uwp.atmosphere \in 2..5 /\ uwp.hydro <= 3)
  /\ TagIff("DesertWorld", uwp.hydro = 0 /\ uwp.atmosphere > 1)
  /\ uwp.trade_classes \subseteq {"Agricultural", "NonAgricultural", "Industrial", "NonIndustrial", "Rich",
                                  "Poor", "WaterWorld", "DesertWorld", "Icecapped"}

\* C16 as the spec states it: for all digits in 0..15 each tag is present iff
\* its condition holds, with Water World iff hydro = 10 and Ice-Capped iff
\* atmosphere <= 1 and hydro = 10.
TradeClassesAsStated ==
  uwp.kind = "classified" =>
    /\ LandTagsAsStated
    /\ TagIff("WaterWorld", uwp.hydro = 10)
    /\ TagIff("Icecapped", uwp.atmosphere <= 1 /\ uwp.hydro = 10)

\* C16 as the code has it: the same table with Water World iff hydro >= 10 and
\* Ice-Capped iff atmosphere <= 1 and hydro >= 10.
TradeClassesFromTen ==
  uwp.kind = "classified" =>
    /\ LandTagsAsStated
    /\ TagIff("WaterWorld", uwp.hydro >= 10)
    /\ TagIff("Icecapped", uwp.atmosphere <= 1 /\ uwp.hydro >= 10)

\* a classified world of hydrographics 11 that is tagged Water World and Ice-Capped
TradeClassesWitness ==
  /\ uwp.kind = "classified"
  /\ uwp.hydro = 11 /\ uwp.atmosphere = 1
  /\ {"WaterWorld", "Icecapped"} \subseteq uwp.trade_classes

\* C12: a body other than the main world that has its stats and facilities has
\* tech level 0 when its population is 0 or less, and tech level 7 or more when
\* it is peopled and its atmosphere is none of 5, 6, 8.
MinimumTechLevel ==
  pc = "placed" =>
    /\ uwp.population <= 0 => uwp.tech_level = 0
    /\ uwp.population > 0 /\ uwp.atmosphere \notin {5, 6, 8} => uwp.tech_level >= 7

\* a peopled body of atmosphere 4 below a main world of tech level 0, raised to
\* tech level 7 by its stats and left there by its facilities
MinimumTechLevelWitness ==
  /\ pc = "placed"
  /\ uwp.population > 0 /\ uwp.atmosphere = 4
  /\ main_world.tech_level = 0 /\ uwp.tech_level = 7

\* C15: every world of the tree carries exactly the trade classes of its final
\* digits.
TradeClassesPerBody ==
  pc = "placed" => uwp.trade_classes = genTradeClasses(uwp)

\* C13: star building ends, and on the way every chain primary, companion,
\* sub-companion has at most 3 stars: a companion is given a sub-companion only
\* at FAR_ORBIT, and no sub-companion is itself at FAR_ORBIT.
StarNestingBounded ==
  /\ [](/\ 1 + Len(loc.path) <= 3
        /\ \A i \in 2..Len(loc.path) : loc.path[i - 1] = FAR_ORBIT /\ loc.path[i] # FAR_ORBIT)
  /\ <>(pc \in {"returned", "failed"})

\* a far companion whose sub-companion has been built
StarNestingWitness == pc = "returned" /\ Len(loc.path) = 2 /\ loc.path[1] = FAR_ORBIT

\* C14: when the satellites pass of a node is over, every large gas giant of
\* the node, at any index from orbit 0 on, has at least one satellite.
LargeGiantsHaveSatellites ==
  pc = "satellites" /\ loc.i > sys[loc.id].max_orbits =>
    \A i \in Slots(loc.id) :
      IsGasGiant(sys[loc.id].orbits[i]) /\ sys[loc.id].orbits[i].size = GGLarge
        => Len(sys[loc.id].orbits[i].sats) >= 1

\* C17: a zone record whose five limits are all >= 0 has
\* inside <= hot <= inner <= habitable <= outer.
ZoneMonotonicity ==
  pc = "zone" =>
    LET z == loc.zone
    IN  z.inside >= 0 /\ z.hot >= 0 /\ z.inner >= 0 /\ z.habitable >= 0 /\ z.outer >= 0
          => z.inside <= z.hot /\ z.hot <= z.inner /\ z.inner <= z.habitable /\ z.habitable <= z.outer

\* the zones of an F5 Ia, all limits above 0 and all different
ZoneMonotonicityWitness ==
  /\ pc = "zone"
  /\ sys["P"].star = [star_type |-> TypeF, subtype |-> 5, size |-> SizeIa]
  /\ loc.zone = [inside |-> 2, hot |-> 5, inner |-> 10, habitable |-> 11, outer |-> 14]

\* C18: from_upp on a string of nine characters fails exactly when one of the
\* digit positions 2-7 and 9 holds a character outside 0-9, a-f, A-F; when it
\* succeeds an unknown port character reads as Y, and neither the port
\* character nor the separator changes a digit.
FromUppFailsOnBadDigit ==
  pc \in {"done", "failed"} =>
    LET upp == codec.upp
        hex == {"0", "1", "2", "3", "4", "5", "6", "7", "8", "9", "a", "b", "c", "d", "e", "f",
                "A", "B", "C", "D", "E", "F"}
        plain == from_upp("Main World", [upp EXCEPT ![1] = "A", ![8] = "-"], FALSE, TRUE)
    IN  /\ pc = "failed" <=> \E i \in {2, 3, 4, 5, 6, 7, 9} : upp[i] \notin hex
        /\ pc = "done" =>
             /\ codec.read.port = IF upp[1] \in {"A", "B", "C", "D", "E", "X", "Y", "H", "G", "F"}
                                  THEN upp[1] ELSE "Y"
             /\ codec.read = [plain EXCEPT !.port = codec.read.port]
             /\ codec.read.size = 7 <=> upp[2] = "7"
             /\ codec.read.size = 12 <=> upp[2] = "c"
             /\ codec.read.size = 14 <=> upp[2] = "E"

\* a string with port Z and separator x read as a world with port Y
FromUppWitness ==
  /\ pc = "done"
  /\ codec.upp[1] = "Z" /\ codec.upp[8] = "x" /\ codec.upp[2] = "E" /\ codec.upp[9] = "b"
  /\ codec.read.port = "Y" /\ codec.read.size = 14 /\ codec.read.tech_level = 11

\* C20: for a main world that does not require the habitable zone, when
\* generateSystem has finished the slot of the primary that placeMainWorld
\* chose still holds the main world, and no other slot of the primary does.
FreeMainWorldKeepsSlot ==
  (pc = "done" /\ ~requires_habitable(main_world)) =>
    {i \in Slots("P") : sys["P"].orbits[i].k = "World" /\ sys["P"].orbits[i].main}
      = {main_world.orbit + 1}

\* C19: the main world is written into the slot array of a node (or into the
\* satellites of one of its gas giants) only in that node's own placement
\* phase, after its empty orbits, gas giants and planetoids.
MainWorldAfterNodePhases ==
  [][\A id \in NodeIds :
       LET Placed(tree) ==
             \E i \in 1..Len(tree[id].orbits) :
               LET slot == tree[id].orbits[i]
               IN  \/ slot.k = "World" /\ slot.main
                   \/ slot.k = "GasGiant" /\ \E j \in 1..Len(slot.sats) : slot.sats[j].main
       IN  ~Placed(sys) /\ Placed(sys') => pc = "placeMainWorld" /\ loc.id = id]_vars

\* C21: every satellite of size other than 0 that is in the list when
\* clean_satellites is called, the main world among them, is in the list
\* afterwards.
MoonsSurviveCleaning ==
  cleaned.called =>
    \A j \in 1..Len(cleaned.satellites) :
      cleaned.satellites[j].size # 0 => \E k \in 1..Len(Cleaned) : Cleaned[k] = cleaned.satellites[j]

\* C22: every generated filler world, belt, satellite and ring has atmosphere
\* and hydrographics in 0..10 and population in 0..15, the digits to_upp can
\* write.
GeneratedDigitsInRange ==
  uwp.kind # "none" =>
    /\ uwp.atmosphere \in 0..10
    /\ uwp.hydro \in 0..10
    /\ uwp.population \in 0..15

\* C23: when generation has ended, every companion linked to a node at a
\* numbered orbit k, 0 < k < FAR_ORBIT, is the body in slot k of that node.
CompanionsKeepSlot ==
  pc = "done" =>
    \A id \in NodeIds : \A c \in {sys[id].secondary, sys[id].tertiary} \ {"none"} :
      sys[c].orbit > 0 /\ sys[c].orbit < FAR_ORBIT
        => ArrayGet(sys[id].orbits, sys[c].orbit) = SystemSlot(c, sys[c].orbit)

MainWorldStarOrbit ==
  (pc = "worlds" /\ loc.id = "P") =>
    \A id \in NodeIds : \A i \in Slots(id) :
      LET slot == sys[id].orbits[i]
      IN  (\/ slot.k = "World" /\ slot.main
           \/ slot.k = "GasGiant" /\ \E j \in 1..Len(slot.sats) : slot.sats[j].main)
            => main_world.star_orbit = i - 1

\* C26: a satellite has the Farming facility only if the orbit of its primary
\* around the star is the habitable index of the system and beyond inner.
SatelliteFarmingByPrimaryOrbit ==
  (pc = "placed" /\ uwp.kind = "satellite" /\ "Farming" \in uwp.facilities) =>
    /\ loc.i = ZoneOf(sys["P"].star).habitable
    /\ loc.i > ZoneOf(sys["P"].star).inner

\* C27: the empty-orbit, gas-giant, planetoid and filler-world phases of a node
\* write only into slots that are null when the phase begins, and what they
\* write there is the body of that phase: every slot that held a companion
\* star, an Empty marker, the main world or an earlier body keeps it (the hot
\* orbits that the population pass forces to Empty aside).
PhasesFillNullSlotsOnly ==
  [][\A id \in NodeIds : \A i \in Slots(id) :
       LET before == sys[id].orbits[i]
           after == ArrayGet(sys'[id].orbits, i - 1)
           kept == before.k # "null" => after = before
           filled == (before.k = "null" /\ after # before)
       IN  /\ pc = "genEmptyOrbits" => kept /\ (filled => id = loc.id /\ after = EmptySlot(i - 1))
           /\ pc = "genGasGiants" => kept /\ (filled => id = loc.id /\ after.k = "GasGiant" /\ after.orbit = i - 1)
           /\ pc = "genPlanetoids" => kept /\ (filled => id = loc.id /\ after = WorldSlot("Planetoid Belt", i - 1, i - 1, 0))
           /\ (pc = "worlds" /\ i - 1 > ZoneOf(sys[loc.id].star).hot)
                => kept /\ (filled => id = loc.id /\ after.k = "World" /\ after.name = "Planet" /\ after.orbit = i - 1)
    ]_vars

\* the phases of a primary are over: its slots hold a companion star, an
\* Empty marker and the main world, and the slot that was null a filler world
PhasesFillWitness ==
  /\ pc = "satellites" /\ loc.id = "P"
  /\ \E i, j, k, l \in Slots("P") :
       /\ sys["P"].orbits[i].k = "System"
       /\ sys["P"].orbits[j].k = "Empty"
       /\ sys["P"].orbits[k].main
       /\ sys["P"].orbits[l].name = "Planet"

\* C28: when the population pass of a node has forced the hot orbits and made
\* the filler worlds, every slot up to the hot limit holds an Empty marker and
\* no slot below max_orbits is null.
HotEmptyRestFilled ==
  pc = "satellites" =>
    /\ \A i \in 0..ZoneOf(sys[loc.id].star).hot : ArrayGet(sys[loc.id].orbits, i) = EmptySlot(i)
    /\ \A i \in 0..(sys[loc.id].max_orbits - 1) : ArrayGet(sys[loc.id].orbits, i).k # "null"

\* the pass of a lone M0 III with three orbits: the two hot orbits hold Empty
\* markers and orbit 2, which was null, a filler world
HotEmptyWitness ==
  /\ pc = "satellites" /\ loc.id = "P"
  /\ ZoneOf(sys["P"].star).hot = 1 /\ sys["P"].max_orbits = 3
  /\ sys["P"].orbits[1] = EmptySlot(0) /\ sys["P"].orbits[2] = EmptySlot(1)
  /\ sys["P"].orbits[3].name = "Planet"

\* C29: when the gas-giant phase of a node is over, a giant sits below the
\* habitable index only if no null slot at or beyond it remains, and the giants
\* placed occupy as many distinct slots as placements were made.
GiantsPreferOuterOrbits ==
  (pc = "genPlanetoids" /\ giants.called) =>
    LET orbits == sys[loc.id].orbits
        habitable == ZoneOf(sys[loc.id].star).habitable
        held == {i \in 0..(Len(orbits) - 1) : orbits[i + 1].k = "GasGiant"}
    IN  /\ (\E i \in held : i < habitable)
             => \A j \in 0..(Len(orbits) - 1) : j >= habitable => orbits[j + 1].k # "null"
        /\ Cardinality(held) = giants.placed
        /\ \A i \in held : orbits[i + 1].orbit = i

\* two giants around a star with habitable index 2: one at orbit 2, the other
\* below it
GiantsPreferOuterWitness ==
  /\ pc = "genPlanetoids" /\ giants.placed = 2
  /\ ZoneOf(sys["P"].star).habitable = 2
  /\ sys["P"].orbits[3].k = "GasGiant"
  /\ \E i \in 1..2 : sys["P"].orbits[i].k = "GasGiant"

\* C30: for a primary with n satellites genSatelliteOrbit returns, after at
\* most n increments of the orbit it rolled, an orbit that no satellite of the
\* primary holds; and the satellites of one primary, a main world among them
\* or not, always have pairwise distinct orbits.
SatelliteOrbitsDistinct ==
  /\ \A id \in NodeIds : \A i \in Slots(id) :
       LET sats == sys[id].orbits[i].sats
       IN  \A j, k \in 1..Len(sats) : j # k => sats[j].orbit # sats[k].orbit
  /\ pc = "genSatellite" =>
       \A d \in [is_ring : {TRUE}, die : Roll1D, roll : {2}, r12 : {0}]
                 \cup [is_ring : {FALSE}, die : {1}, roll : Roll2D, r12 : OrbitDice] :
         LET primary == Body
             n == Len(primary.sats)
             held == {primary.sats[j].orbit : j \in 1..n}
             rolled == genSatelliteOrbit([primary EXCEPT !.sats = <<>>], d.is_ring, d.die, d.roll - n, d.r12)
             orbit == genSatelliteOrbit(primary, d.is_ring, d.die, d.roll, d.r12)
         IN  orbit - rolled \in 0..n /\ orbit \notin held

\* a gas giant whose satellites hold the orbits 3, 4 and 5, the main world
\* one of them: the last one rolled 3 and was moved twice
SatelliteOrbitsWitness ==
  /\ pc = "genSatellite" /\ IsGasGiant(Body)
  /\ Len(Body.sats) = 3
  /\ {Body.sats[j].orbit : j \in 1..3} = {3, 4, 5}
  /\ \E j \in 1..3 : Body.sats[j].main
====
